---- MODULE Spec2Model ----
(***************************************************************************)
(* Model of the arith interpreter: tokenizer, recursive-descent parser,    *)
(* bytecode compiler, stack executor and the line orchestrator            *)
(* evaluate_lines.                                                         *)
(*                                                                         *)
(* Text is a sequence of one-character strings.  An input is the sequence  *)
(* of physical lines that str::lines() yields.  An f64 is modelled by the  *)
(* exact rational <<numerator, denominator>> in lowest terms, denominator  *)
(* positive (rounding is abstracted; equality with 0.0 is exact).          *)
(***************************************************************************)
EXTENDS Integers, Sequences, FiniteSets, TLC

\* ------------------------------------------------------------------ bounds
MaxLen == 5

MaxLines == 3

\* ------------------------------------------------------- character classes
Digits == {"0", "1", "2", "3", "4", "5", "6", "7", "8", "9"}

Letters == {"a", "b", "c", "d", "e", "f", "g", "h", "i", "j", "k", "l", "m",
            "n", "o", "p", "q", "r", "s", "t", "u", "v", "w", "x", "y", "z",
            "A", "B", "C", "D", "E", "F", "G", "H", "I", "J", "K", "L", "M",
            "N", "O", "P", "Q", "R", "S", "T", "U", "V", "W", "X", "Y", "Z"}

\* characters for which char::is_numeric holds but neither is_ascii_digit nor
\* is_alphabetic; "sup2" stands for the one character U+00B2
Numerics == {"sup2"}

Whitespace == {" ", "\t", "\r"}

DigitVal(c) ==
  CASE c = "0" -> 0 [] c = "1" -> 1 [] c = "2" -> 2 [] c = "3" -> 3
    [] c = "4" -> 4 [] c = "5" -> 5 [] c = "6" -> 6 [] c = "7" -> 7
    [] c = "8" -> 8 [] c = "9" -> 9

\* --------------------------------------------------------------- rationals
RECURSIVE Gcd(_, _)
Gcd(a, b) == IF b = 0 THEN a ELSE Gcd(b, a % b)

Abs(n) == IF n < 0 THEN -n ELSE n

Norm(n, d) ==
  LET g == Gcd(Abs(n), Abs(d))
      s == IF d < 0 THEN -1 ELSE 1
  IN  IF d = 0 THEN <<0, 0>> ELSE <<s * (n \div g), s * (d \div g)>>

Zero == <<0, 1>>

RatAdd(a, b) == Norm(a[1] * b[2] + b[1] * a[2], a[2] * b[2])

RatSub(a, b) == Norm(a[1] * b[2] - b[1] * a[2], a[2] * b[2])

RatMul(a, b) == Norm(a[1] * b[1], a[2] * b[2])

RatDiv(a, b) == Norm(a[1] * b[2], a[2] * b[1])

RatNeg(a) == <<-a[1], a[2]>>

RECURSIVE Pow10(_)
Pow10(n) == IF n = 0 THEN 1 ELSE 10 * Pow10(n - 1)

\* ------------------------------------------------------------------ tokens
Tok(type, text, line, start, end) ==
  [type |-> type, text |-> text, line |-> line, start |-> start, end |-> end]

TokPos(type, line, pos) == Tok(type, <<>>, line, pos, pos)

TokOk(tokens) == [ok |-> TRUE, tokens |-> tokens, found |-> "", line |-> 0, col |-> 0]

TokErr(found, line, col) ==
  [ok |-> FALSE, tokens |-> <<>>, found |-> found, line |-> line, col |-> col]

\* String::len, the length in bytes of the UTF-8 encoding: the characters of
\* Numerics take two bytes, every other character of the model one
Utf8Len(s) == Len(s) + Cardinality({i \in 1..Len(s) : s[i] \in Numerics})

\* index one past the comment text that starts at i
RECURSIVE ScanComment(_, _)
ScanComment(chars, i) ==
  IF i <= Len(chars) /\ chars[i] # "\n" THEN ScanComment(chars, i + 1) ELSE i

RECURSIVE ScanMantissa(_, _, _)
\* a mantissa scan that takes every dot
ScanMantissa_dots(chars, i, has_dot) ==
  IF i <= Len(chars) /\ (chars[i] \in Digits \/ chars[i] = ".")
  THEN ScanMantissa(chars, i + 1, FALSE)
  ELSE i

\* index one past the digits (and at most one dot) that start at i
ScanMantissa(chars, i, has_dot) ==
  IF i <= Len(chars) /\ (chars[i] \in Digits \/ (chars[i] = "." /\ ~has_dot))
  THEN ScanMantissa(chars, i + 1, has_dot \/ chars[i] = ".")
  ELSE i

RECURSIVE ScanDigits(_, _)
ScanDigits(chars, i) ==
  IF i <= Len(chars) /\ chars[i] \in Digits THEN ScanDigits(chars, i + 1) ELSE i

\* index one past the whole number literal that starts at i
ScanNumber(chars, i) ==
  LET m == ScanMantissa(chars, i, FALSE)
  IN  IF m <= Len(chars) /\ chars[m] \in {"e", "E"}
      THEN LET s == IF m + 1 <= Len(chars) /\ chars[m + 1] \in {"+", "-"}
                    THEN m + 2 ELSE m + 1
           IN  ScanDigits(chars, s)
      ELSE m

RECURSIVE ScanIdent(_, _)
\* an identifier scan that stops at the first digit
ScanIdent_letters(chars, i) ==
  IF i <= Len(chars) /\ (chars[i] \in Letters \/ chars[i] = "_")
  THEN ScanIdent(chars, i + 1)
  ELSE i

ScanIdent(chars, i) ==
  IF i <= Len(chars) /\ (chars[i] \in Letters \cup Digits \cup Numerics \/ chars[i] = "_")
  THEN ScanIdent(chars, i + 1)
  ELSE i

OpType(c) ==
  CASE c = "+" -> "Plus" [] c = "-" -> "Minus" [] c = "*" -> "Mul" [] c = "/" -> "Div"

OpAssignType(c) ==
  CASE c = "+" -> "PlusAssign" [] c = "-" -> "MinusAssign"
    [] c = "*" -> "MulAssign" [] c = "/" -> "DivAssign"

\* the main loop of Tokenizer::tokenize; i is 1-based, line_no and col
\* are the 0-based counters of the code
RECURSIVE TokLoop(_, _, _, _, _)
TokLoop(chars, i, line_no, col, tokens) ==
  IF i > Len(chars)
  THEN TokOk(Append(tokens, TokPos("EOF", line_no + 1, col + 1)))
  ELSE LET c == chars[i] IN
    CASE c \in {"+", "-", "*", "/"} ->
           IF i + 1 <= Len(chars) /\ chars[i + 1] = "="
           THEN TokLoop(chars, i + 2, line_no, col + 2,
                        Append(tokens, TokPos(OpAssignType(c), line_no + 1, col + 1)))
           ELSE TokLoop(chars, i + 1, line_no, col + 1,
                        Append(tokens, TokPos(OpType(c), line_no + 1, col + 1)))
      [] c = "(" -> TokLoop(chars, i + 1, line_no, col + 1,
                            Append(tokens, TokPos("ParanOpen", line_no + 1, col + 1)))
      [] c = ")" -> TokLoop(chars, i + 1, line_no, col + 1,
                            Append(tokens, TokPos("ParanClose", line_no + 1, col + 1)))
      [] c = "=" -> TokLoop(chars, i + 1, line_no, col + 1,
                            Append(tokens, TokPos("Assign", line_no + 1, col + 1)))
      [] c = ":" -> TokLoop(chars, i + 1, line_no, col + 1,
                            Append(tokens, TokPos("Colon", line_no + 1, col + 1)))
      [] c = ";" ->
           LET j == ScanComment(chars, i + 1)
               comment == SubSeq(chars, i + 1, j - 1)
           IN  TokLoop(chars, j, line_no, col + 1 + Utf8Len(comment),
                       Append(tokens, Tok("Comment", comment, line_no + 1, col + 1,
                                          col + 1 + Utf8Len(comment))))
      [] c = "\n" -> TokLoop(chars, i + 1, line_no + 1, 0,
                             Append(tokens, TokPos("Newline", line_no + 1, col + 1)))
      [] c \in Digits ->
           LET j == ScanNumber(chars, i)
               number == SubSeq(chars, i, j - 1)
           IN  TokLoop(chars, j, line_no, col + Len(number),
                       Append(tokens, Tok("Number", number, line_no + 1, col + 1,
                                          col + 1 + Len(number))))
      [] c \in Whitespace -> TokLoop(chars, i + 1, line_no, col + 1, tokens)
      [] c \in Letters \/ c = "_" ->
           LET j == ScanIdent(chars, i)
               ident == SubSeq(chars, i, j - 1)
           IN  IF ident = <<"l", "e", "t">>
               THEN TokLoop(chars, j, line_no, col + Len(ident),
                            Append(tokens, Tok("Let", <<>>, line_no + 1, col + 1,
                                               col + Len(ident))))
               ELSE TokLoop(chars, j, line_no, col + Len(ident),
                            Append(tokens, Tok("Identifier", ident, line_no + 1, col + 1,
                                               col + Len(ident))))
      [] OTHER -> TokErr(c, line_no + 1, col + 1)

\* a tokenizer that returns no token at all for an empty text
Tokenize_noeof(chars) ==
  IF chars = <<>> THEN TokOk(<<>>) ELSE TokLoop(chars, 1, 0, 0, <<>>)

Tokenize(chars) == TokLoop(chars, 1, 0, 0, <<>>)

\* ------------------------------------------------------------ parser errors
NoErr == [kind |-> "", found |-> <<>>, line |-> 0, col |-> 0, value |-> <<>>, message |-> <<>>]

\* TokenType carried by an error: the variant and its payload
Found(t) == <<t.type, t.text>>

\* an error constructor that turns the EOF token into UnexpectedEOF
UnexpectedToken_eof(t) ==
  IF t.type = "EOF"
  THEN [kind |-> "UnexpectedEOF", found |-> <<>>, line |-> t.line, col |-> t.start,
        value |-> <<>>, message |-> <<>>]
  ELSE [kind |-> "UnexpectedToken", found |-> Found(t), line |-> t.line,
        col |-> t.start, value |-> <<>>, message |-> <<>>]

UnexpectedToken(t) ==
  [kind |-> "UnexpectedToken", found |-> Found(t), line |-> t.line, col |-> t.start,
   value |-> <<>>, message |-> <<>>]

UnexpectedEOF(line, col) ==
  [kind |-> "UnexpectedEOF", found |-> <<>>, line |-> line, col |-> col,
   value |-> <<>>, message |-> <<>>]

InvalidNumber(t) ==
  [kind |-> "InvalidNumber", found |-> <<>>, line |-> t.line, col |-> t.start,
   value |-> t.text, message |-> <<>>]

TokenizerError(found, line, col) ==
  [kind |-> "TokenizerError", found |-> <<>>, line |-> line, col |-> col,
   value |-> <<>>, message |-> <<"Unexpected character", found>>]

\* ------------------------------------------------ str::parse::<f64>()
\* restricted to the texts the number arm of the tokenizer produces:
\* digits, at most one dot, then optionally e/E, a sign and digits
RECURSIVE DigitsVal(_, _)
DigitsVal(ds, acc) ==
  IF ds = <<>> THEN acc
  ELSE IF Head(ds) = "." THEN DigitsVal(Tail(ds), acc)
  ELSE DigitsVal(Tail(ds), 10 * acc + DigitVal(Head(ds)))

RECURSIVE FracLen(_)
FracLen(ds) ==
  IF ds = <<>> THEN 0
  ELSE IF Head(ds) = "." THEN Len(ds) - 1
  ELSE FracLen(Tail(ds))

\* a conversion that reads a missing exponent as zero
ParseF64_lenient(raw) ==
  LET m    == ScanMantissa(raw, 1, FALSE)
      mant == SubSeq(raw, 1, m - 1)
  IN  [ok |-> TRUE, v |-> Norm(DigitsVal(mant, 0), Pow10(FracLen(mant)))]

ParseF64(raw) ==
  LET m    == ScanMantissa(raw, 1, FALSE)
      mant == SubSeq(raw, 1, m - 1)
      base == Norm(DigitsVal(mant, 0), Pow10(FracLen(mant)))
  IN  IF m > Len(raw) THEN [ok |-> TRUE, v |-> base]
      ELSE LET neg  == m + 1 <= Len(raw) /\ raw[m + 1] = "-"
               s    == IF m + 1 <= Len(raw) /\ raw[m + 1] \in {"+", "-"}
                       THEN m + 2 ELSE m + 1
               exp  == SubSeq(raw, s, Len(raw))
               e    == DigitsVal(exp, 0)
           IN  IF exp = <<>> THEN [ok |-> FALSE, v |-> Zero]
               ELSE [ok |-> TRUE,
                     v  |-> IF neg THEN RatDiv(base, <<Pow10(e), 1>>)
                                   ELSE RatMul(base, <<Pow10(e), 1>>)]

\* --------------------------------------------------------------------- AST
Number(n) == <<"Number", n>>

UnaryOp(op, e) == <<"UnaryOp", op, e>>

BinaryOp(l, op, r) == <<"BinaryOp", l, op, r>>

Empty == <<"Empty">>

EmptyParen == <<"EmptyParen">>

\* ------------------------------------------------------------------ parser
\* Parser::new: Comment and Newline tokens are filtered out
FilterTokens(tokens) ==
  SelectSeq(tokens, LAMBDA t : t.type \notin {"Comment", "Newline"})

\* an advance without the check against the last token
Advance_past(toks, pos) == pos + 1

\* Parser::advance (positions are 1-based here)
Advance(toks, pos) == IF pos < Len(toks) THEN pos + 1 ELSE pos

POk(node, pos) == [ok |-> TRUE, node |-> node, pos |-> pos, err |-> NoErr]

PFail(err, pos) == [ok |-> FALSE, node |-> Empty, pos |-> pos, err |-> err]

RECURSIVE ParseExpr(_, _)
RECURSIVE ParseExprLoop(_, _, _)
RECURSIVE ParseTerm(_, _)
RECURSIVE ParseTermLoop(_, _, _)
RECURSIVE ParseFactor(_, _)

\* the unary arm once its operand is parsed: `let expr = self.parse_factor()?`
UnaryArm(op, r) == IF r.ok THEN POk(UnaryOp(op, r.node), r.pos) ELSE r

\* the number arm: value.parse() or InvalidNumber at the current token
NumberArm(toks, pos, n) ==
  IF n.ok THEN POk(Number(n.v), Advance(toks, pos))
  ELSE PFail(InvalidNumber(toks[pos]), pos)

\* a closing check that blames the token before the current one
CloseParen_prev(toks, r) ==
  IF ~r.ok THEN r
  ELSE IF toks[r.pos].type # "ParanClose"
       THEN PFail(UnexpectedToken(toks[r.pos - 1]), r.pos)
       ELSE POk(r.node, Advance(toks, r.pos))

\* the parenthesis arm once the inner expression is parsed: the current
\* token must be `)`
CloseParen(toks, r) ==
  IF ~r.ok THEN r
  ELSE IF toks[r.pos].type # "ParanClose"
       THEN PFail(UnexpectedToken(toks[r.pos]), r.pos)
       ELSE POk(r.node, Advance(toks, r.pos))

\* one round of the loop of parse_term, once the right operand is parsed
TermStep(toks, node, op, r) ==
  IF r.ok THEN ParseTermLoop(toks, r.pos, BinaryOp(node, op, r.node)) ELSE r

\* one round of the loop of parse_expr, once the right operand is parsed
ExprStep(toks, node, op, r) ==
  IF r.ok THEN ParseExprLoop(toks, r.pos, BinaryOp(node, op, r.node)) ELSE r

\* entering a loop with the first operand, or propagating its error
EnterTermLoop(toks, r) == IF r.ok THEN ParseTermLoop(toks, r.pos, r.node) ELSE r

EnterExprLoop(toks, r) == IF r.ok THEN ParseExprLoop(toks, r.pos, r.node) ELSE r

\* a factor parser that takes a missing operand for an empty expression
ParseFactor_lenient(toks, pos) ==
  CASE toks[pos].type \in {"Plus", "Minus"} ->
         UnaryArm(toks[pos].type, ParseFactor(toks, Advance(toks, pos)))
    [] toks[pos].type = "Number" -> NumberArm(toks, pos, ParseF64(toks[pos].text))
    [] toks[pos].type = "ParanOpen" ->
         IF toks[Advance(toks, pos)].type = "ParanClose"
         THEN POk(EmptyParen, Advance(toks, Advance(toks, pos)))
         ELSE CloseParen(toks, ParseExpr(toks, Advance(toks, pos)))
    [] OTHER -> POk(Empty, pos)

ParseFactor(toks, pos) ==
  CASE toks[pos].type \in {"Plus", "Minus"} ->
         UnaryArm(toks[pos].type, ParseFactor(toks, Advance(toks, pos)))
    [] toks[pos].type = "Number" -> NumberArm(toks, pos, ParseF64(toks[pos].text))
    [] toks[pos].type = "ParanOpen" ->
         IF toks[Advance(toks, pos)].type = "ParanClose"
         THEN POk(EmptyParen, Advance(toks, Advance(toks, pos)))
         ELSE CloseParen(toks, ParseExpr(toks, Advance(toks, pos)))
    [] OTHER -> PFail(UnexpectedToken(toks[pos]), pos)

\* the while loop of parse_term
ParseTermLoop(toks, pos, node) ==
  IF toks[pos].type \notin {"Mul", "Div", "ParanOpen", "Number"} THEN POk(node, pos)
  ELSE TermStep(toks, node,
                IF toks[pos].type \in {"ParanOpen", "Number"} THEN "Mul"
                ELSE toks[pos].type,
                ParseFactor(toks, IF toks[pos].type \in {"ParanOpen", "Number"}
                                  THEN pos ELSE Advance(toks, pos)))

ParseTerm(toks, pos) == EnterTermLoop(toks, ParseFactor(toks, pos))

\* parse_expr whose right operands are factors, not terms
ParseExprLoop_flat(toks, pos, node) ==
  IF toks[pos].type \notin {"Plus", "Minus"} THEN POk(node, pos)
  ELSE ExprStep(toks, node, toks[pos].type, ParseFactor(toks, Advance(toks, pos)))

\* the while loop of parse_expr
ParseExprLoop(toks, pos, node) ==
  IF toks[pos].type \notin {"Plus", "Minus"} THEN POk(node, pos)
  ELSE ExprStep(toks, node, toks[pos].type, ParseTerm(toks, Advance(toks, pos)))

ParseExpr(toks, pos) == EnterExprLoop(toks, ParseTerm(toks, pos))

\* Parser::new(tokens).parse()
Parse(tokens) ==
  LET toks == FilterTokens(tokens)
  IN  IF toks[1].type = "EOF" THEN POk(Empty, 1) ELSE ParseExpr(toks, 1)

\* ---------------------------------------------------------------- compiler
COk(code) == [ok |-> TRUE, code |-> code, err |-> ""]

CFail(op) == [ok |-> FALSE, code |-> <<>>, err |-> op]

\* empty parentheses that count as one
PushZero_one == <<"Push", <<1, 1>>>>

\* the instruction emitted for EmptyParen: Instr::Push(0.0)
PushZero == <<"Push", Zero>>

RECURSIVE CompileExpr(_, _)
\* a compiler that emits the right operand of a binary node before the left
CompileExpr_rightfirst(expr, code) ==
  CASE expr[1] = "Number" -> COk(Append(code, <<"Push", expr[2]>>))
    [] expr[1] = "UnaryOp" ->
         LET r == CompileExpr(expr[3], code) IN
         IF ~r.ok THEN r
         ELSE CASE expr[2] = "Minus" -> COk(Append(r.code, <<"Neg">>))
                [] expr[2] = "Plus" -> r
                [] OTHER -> CFail(expr[2])
    [] expr[1] = "BinaryOp" ->
         LET l == CompileExpr(expr[4], code) IN
         IF ~l.ok THEN l
         ELSE LET r == CompileExpr(expr[2], l.code) IN
              IF ~r.ok THEN r
              ELSE CASE expr[3] = "Plus" -> COk(Append(r.code, <<"Add">>))
                     [] expr[3] = "Minus" -> COk(Append(r.code, <<"Sub">>))
                     [] expr[3] = "Mul" -> COk(Append(r.code, <<"Mul">>))
                     [] expr[3] = "Div" -> COk(Append(r.code, <<"Div">>))
                     [] OTHER -> CFail(expr[3])
    [] expr[1] = "Empty" -> COk(code)
    [] expr[1] = "EmptyParen" -> COk(Append(code, PushZero))

CompileExpr(expr, code) ==
  CASE expr[1] = "Number" -> COk(Append(code, <<"Push", expr[2]>>))
    [] expr[1] = "UnaryOp" ->
         LET r == CompileExpr(expr[3], code) IN
         IF ~r.ok THEN r
         ELSE CASE expr[2] = "Minus" -> COk(Append(r.code, <<"Neg">>))
                [] expr[2] = "Plus" -> r
                [] OTHER -> CFail(expr[2])
    [] expr[1] = "BinaryOp" ->
         LET l == CompileExpr(expr[2], code) IN
         IF ~l.ok THEN l
         ELSE LET r == CompileExpr(expr[4], l.code) IN
              IF ~r.ok THEN r
              ELSE CASE expr[3] = "Plus" -> COk(Append(r.code, <<"Add">>))
                     [] expr[3] = "Minus" -> COk(Append(r.code, <<"Sub">>))
                     [] expr[3] = "Mul" -> COk(Append(r.code, <<"Mul">>))
                     [] expr[3] = "Div" -> COk(Append(r.code, <<"Div">>))
                     [] OTHER -> CFail(expr[3])
    [] expr[1] = "Empty" -> COk(code)
    [] expr[1] = "EmptyParen" -> COk(Append(code, PushZero))

Compile(expr) == CompileExpr(expr, <<>>)

\* ---------------------------------------------------------------- executor
NoExecErr == [kind |-> "", instr |-> "", message |-> <<>>]

StackUnderflow(instr) == [kind |-> "StackUnderflow", instr |-> instr, message |-> <<>>]

DivisionByZero == [kind |-> "DivisionByZero", instr |-> "", message |-> <<>>]

NoResult == [kind |-> "NoResult", instr |-> "", message |-> <<>>]

Other(message) == [kind |-> "Other", instr |-> "", message |-> message]

XOk(v) == [ok |-> TRUE, v |-> v, err |-> NoExecErr]

XFail(err) == [ok |-> FALSE, v |-> <<>>, err |-> err]

Pop(stack) == SubSeq(stack, 1, Len(stack) - 1)

Top(stack) == stack[Len(stack)]

\* the Div arm without the test of the divisor
ExecDiv_unchecked(stack) ==
  IF stack = <<>> THEN [ok |-> FALSE, stack |-> stack, err |-> StackUnderflow("Div")]
  ELSE LET b == Top(stack) s1 == Pop(stack) IN
       IF s1 = <<>> THEN [ok |-> FALSE, stack |-> s1, err |-> StackUnderflow("Div")]
       ELSE [ok |-> TRUE, stack |-> Append(Pop(s1), RatDiv(Top(s1), b)), err |-> NoExecErr]

\* the Div arm: the divisor is popped and tested before the dividend is popped
ExecDiv(stack) ==
  IF stack = <<>> THEN [ok |-> FALSE, stack |-> stack, err |-> StackUnderflow("Div")]
  ELSE LET b == Top(stack) s1 == Pop(stack) IN
       IF b[1] = 0 THEN [ok |-> FALSE, stack |-> s1, err |-> DivisionByZero]
       ELSE IF s1 = <<>> THEN [ok |-> FALSE, stack |-> s1, err |-> StackUnderflow("Div")]
       ELSE [ok |-> TRUE, stack |-> Append(Pop(s1), RatDiv(Top(s1), b)), err |-> NoExecErr]

\* binary arms that take the top of the stack for the left operand
ExecBin_swapped(name, stack) ==
  IF stack = <<>> THEN [ok |-> FALSE, stack |-> stack, err |-> StackUnderflow(name)]
  ELSE LET a == Top(stack) s1 == Pop(stack) IN
       IF s1 = <<>> THEN [ok |-> FALSE, stack |-> s1, err |-> StackUnderflow(name)]
       ELSE LET b == Top(s1)
                v == CASE name = "Add" -> RatAdd(a, b)
                       [] name = "Sub" -> RatSub(a, b)
                       [] name = "Mul" -> RatMul(a, b)
            IN  [ok |-> TRUE, stack |-> Append(Pop(s1), v), err |-> NoExecErr]

\* the Add, Sub and Mul arms
ExecBin(name, stack) ==
  IF stack = <<>> THEN [ok |-> FALSE, stack |-> stack, err |-> StackUnderflow(name)]
  ELSE LET b == Top(stack) s1 == Pop(stack) IN
       IF s1 = <<>> THEN [ok |-> FALSE, stack |-> s1, err |-> StackUnderflow(name)]
       ELSE LET a == Top(s1)
                v == CASE name = "Add" -> RatAdd(a, b)
                       [] name = "Sub" -> RatSub(a, b)
                       [] name = "Mul" -> RatMul(a, b)
            IN  [ok |-> TRUE, stack |-> Append(Pop(s1), v), err |-> NoExecErr]

\* a Neg arm that pops its operand and pushes nothing
ExecNeg_drop(stack) ==
  IF stack = <<>> THEN [ok |-> FALSE, stack |-> stack, err |-> StackUnderflow("Neg")]
  ELSE [ok |-> TRUE, stack |-> Pop(stack), err |-> NoExecErr]

ExecNeg(stack) ==
  IF stack = <<>> THEN [ok |-> FALSE, stack |-> stack, err |-> StackUnderflow("Neg")]
  ELSE [ok |-> TRUE, stack |-> Append(Pop(stack), RatNeg(Top(stack))), err |-> NoExecErr]

\* one instruction of the for loop of SimpleExecutor::execute
ExecInstr(instr, stack) ==
  CASE instr[1] = "Push" -> [ok |-> TRUE, stack |-> Append(stack, instr[2]), err |-> NoExecErr]
    [] instr[1] \in {"Add", "Sub", "Mul"} -> ExecBin(instr[1], stack)
    [] instr[1] = "Div" -> ExecDiv(stack)
    [] instr[1] = "Neg" -> ExecNeg(stack)

RECURSIVE ExecLoop(_, _, _)
ExecLoop(instructions, i, stack) ==
  IF i > Len(instructions)
  THEN IF stack = <<>> THEN XFail(NoResult) ELSE XOk(Top(stack))
  ELSE LET r == ExecInstr(instructions[i], stack)
       IN  IF r.ok THEN ExecLoop(instructions, i + 1, r.stack) ELSE XFail(r.err)

Execute(instructions) == ExecLoop(instructions, 1, <<>>)

\* ------------------------------------------------------------ orchestrator
\* raw_line.split(';').next(): the text before the first ';'
RECURSIVE StripComment(_)
\* a comment removal that cuts at the last `;` of the line
StripComment_last(line) ==
  IF line = <<>> \/ (Head(line) = ";" /\ \A i \in 2..Len(line) : line[i] # ";") THEN <<>>
  ELSE <<Head(line)>> \o StripComment(Tail(line))

StripComment(line) ==
  IF line = <<>> \/ Head(line) = ";" THEN <<>>
  ELSE <<Head(line)>> \o StripComment(Tail(line))

RECURSIVE TrimStart(_)
TrimStart(s) ==
  IF s # <<>> /\ Head(s) \in Whitespace THEN TrimStart(Tail(s)) ELSE s

RECURSIVE TrimEnd(_)
TrimEnd(s) ==
  IF s # <<>> /\ s[Len(s)] \in Whitespace THEN TrimEnd(SubSeq(s, 1, Len(s) - 1)) ELSE s

\* str::trim
Trim(s) == TrimEnd(TrimStart(s))

EndsWithBackslash(s) == s # <<>> /\ s[Len(s)] = "\\"

\* a line loop that joins continued lines without the separating space
AssembleStep_nospace(st, raw_line, line_num) ==
  LET trimmed_line_content == Trim(StripComment(raw_line))
      start == IF st.buffer = <<>> THEN line_num ELSE st.start_line
  IN  IF EndsWithBackslash(trimmed_line_content)
      THEN [buffer |-> st.buffer
                       \o Trim(SubSeq(trimmed_line_content, 1, Len(trimmed_line_content) - 1)),
            start_line |-> start,
            joined |-> st.joined]
      ELSE LET buf == st.buffer \o trimmed_line_content
           IN  [buffer |-> <<>>,
                start_line |-> 0,
                joined |-> IF Trim(buf) # <<>>
                           THEN Append(st.joined, [text |-> buf, offset |-> start])
                           ELSE st.joined]

\* a line loop that clears the buffer only when it pushes a statement
AssembleStep_keep(st, raw_line, line_num) ==
  LET trimmed_line_content == Trim(StripComment(raw_line))
      start == IF st.buffer = <<>> THEN line_num ELSE st.start_line
  IN  IF EndsWithBackslash(trimmed_line_content)
      THEN [buffer |-> st.buffer
                       \o Trim(SubSeq(trimmed_line_content, 1, Len(trimmed_line_content) - 1))
                       \o <<" ">>,
            start_line |-> start,
            joined |-> st.joined]
      ELSE LET buf == st.buffer \o trimmed_line_content
           IN  IF Trim(buf) # <<>>
               THEN [buffer |-> <<>>, start_line |-> 0,
                     joined |-> Append(st.joined, [text |-> buf, offset |-> start])]
               ELSE [buffer |-> buf, start_line |-> start, joined |-> st.joined]

\* one iteration of the line loop of evaluate_lines; st is the loop state
\* [buffer, start_line, joined]
AssembleStep(st, raw_line, line_num) ==
  LET trimmed_line_content == Trim(StripComment(raw_line))
      start == IF st.buffer = <<>> THEN line_num ELSE st.start_line
  IN  IF EndsWithBackslash(trimmed_line_content)
      THEN [buffer |-> st.buffer
                       \o Trim(SubSeq(trimmed_line_content, 1, Len(trimmed_line_content) - 1))
                       \o <<" ">>,
            start_line |-> start,
            joined |-> st.joined]
      ELSE LET buf == st.buffer \o trimmed_line_content
           IN  [buffer |-> <<>>,
                start_line |-> 0,
                joined |-> IF Trim(buf) # <<>>
                           THEN Append(st.joined, [text |-> buf, offset |-> start])
                           ELSE st.joined]

\* an end of input that drops the statement left in the buffer
FlushStep_drop(st) == st.joined

\* the statement left in the buffer when the input ends inside a continuation
FlushStep(st) ==
  IF st.buffer # <<>> /\ Trim(st.buffer) # <<>>
  THEN Append(st.joined, [text |-> st.buffer, offset |-> st.start_line])
  ELSE st.joined

\* entries of the result vector
OkEntry(v, text) ==
  [tag |-> "Ok", v |-> v, perr |-> NoErr, cerr |-> "", xerr |-> NoExecErr,
   text |-> text, offset |-> 0]

ParseEntry(err, text, offset) ==
  [tag |-> "Parse", v |-> <<>>, perr |-> err, cerr |-> "", xerr |-> NoExecErr,
   text |-> text, offset |-> offset]

CompileEntry(op, text) ==
  [tag |-> "Compile", v |-> <<>>, perr |-> NoErr, cerr |-> op, xerr |-> NoExecErr,
   text |-> text, offset |-> 0]

ExecEntry(err, text) ==
  [tag |-> "Exec", v |-> <<>>, perr |-> NoErr, cerr |-> "", xerr |-> err,
   text |-> text, offset |-> 0]

\* ------------------------------------------------------------------ inputs
ExprAlphabet == {"2", "3", "+", "-", "*", "/", "(", ")"}

\* every single-line input of at most MaxLen characters over ExprAlphabet
ExprInputs == {<<l>> : l \in UNION {[1..n -> ExprAlphabet] : n \in 0..MaxLen}}

LinePool ==
  {<<>>,
   <<" ", "\t">>,
   <<";", "2">>,
   <<"1", " ", "+", " ", "\\">>,
   <<"\\">>,
   <<"2">>,
   <<"1", " ", "/", " ", "0">>,
   <<"@">>,
   <<"1", " ", "+", " ", "*", " ", "2">>,
   <<"a">>,
   <<"l", "e", "t", " ", "a", " ", "=", " ", "1">>,
   <<"a", " ", "=", " ", "2">>,
   <<" ", "3", " ", ";", "\\">>,
   <<"3", " ", "\\", " ", "\\">>}

\* every input of at most MaxLines lines taken from LinePool
PoolInputs == UNION {[1..n -> LinePool] : n \in 0..MaxLines}

ExampleLines ==
  {<<"1", " ", "+", " ", "2", " ", "*", " ", "3">>,
   <<"1", "0", " ", "-", " ", "4", " ", "/", " ", "2">>,
   <<" ", "(", "1", " ", "+", " ", "2", ")", " ", "*", " ", "3">>,
   <<"1", "0", " ", "/", " ", "(", "4", " ", "-", " ", "2", ")">>,
   <<"2", " ", "*", " ", "3", "(", "4", ")">>,
   <<"1", "0", " ", "/", " ", "2", " ", "*", " ", "5", " ", "+", " ", "1">>,
   <<" ", "(", "2", ")", "(", "3", ")", " ", "*", " ", "4">>,
   <<"5", "(", "1", "+", "1", ")", " ", "*", " ", "2">>,
   <<" ", "(", "5", " ", "+", " ", "5", ")", " ", "/", " ", "(", "3", " ", "-", " ", "3", ")">>,
   <<"(", "3", ")", "2">>,
   <<"2", " ", "3">>,
   <<"1", " ", "+", " ", "(", ")", " ", "*", " ", "5">>,
   <<"a", "b", "c">>,
   <<" ", "(", "1", " ", "+", " ", "2", " ">>,
   <<"1", " ", "%", " ", "2">>,
   <<"1", ".", "5", " ", "+", " ", "2", ".", "5">>,
   <<"1", "e", "-", "1", " ", "*", " ", "1", "0", "0">>,
   <<"2", ".", "5", "E", "+", "3">>,
   <<"-", "-", "5">>,
   <<"2", " ", "a">>,
   <<"(", "3", ")", " ", "x", "1">>,
   <<"1", " ", ")">>,
   <<"(", "1", "+", "2", ")", ")">>,
   <<"1", " ", "=", " ", "2">>,
   <<"1", "e">>,
   <<"2", "E", "+">>,
   <<"1", " ", "+", " ", "3", "e", "-", " ", "2">>,
   <<"1", " ", "+", " ", "2", " ", "-", " ", "3", " ", "*", " ", "4", " ", "/", " ", "2">>}

ExampleInputs == {<<l>> : l \in ExampleLines}

\* inputs of several lines
ExampleTexts ==
  { << <<"1", " ", "+", " ", "\\", " ", ";", "@">>,
       <<"2", " ", ";", "\\">>,
       <<"3">> >>,
    << <<"1", " ", ";", " ", "2", " ", ";", "\\">>,
       <<";", "\\">>,
       <<"\\", ";", ";">>,
       <<"/", " ", "0", ";", "+">> >> }

Inputs == ExprInputs \cup PoolInputs \cup ExampleInputs \cup ExampleTexts

\* ------------------------------------------------------------------- state
VARIABLES input, pc, idx, buffer, start_line, joined, k, tokens, ast, code, results,
          run, previous,
          unit, content, lexed, expr, instructions, ip, stack, outcome

\* the state of one unit (tokenizer, compiler, executor) exercised on its own
uvars == <<unit, content, lexed, expr, instructions, ip, stack, outcome>>

vars == <<input, pc, idx, buffer, start_line, joined, k, tokens, ast, code, results,
          run, previous, uvars>>

NoTokens == TokOk(<<>>)

NoAst == POk(Empty, 0)

NoCode == COk(<<>>)

\* no unit is exercised on its own
UnitIdle ==
  /\ unit = "none"
  /\ content = <<>>
  /\ lexed = NoTokens
  /\ expr = Empty
  /\ instructions = <<>>
  /\ ip = 0
  /\ stack = <<>>
  /\ outcome = XOk(<<>>)

Init ==
  /\ UnitIdle
  /\ run = 1
  /\ previous = <<>>
  /\ input \in Inputs
  /\ pc = "lines"
  /\ idx = 1
  /\ buffer = <<>>
  /\ start_line = 0
  /\ joined = <<>>
  /\ k = 1
  /\ tokens = NoTokens
  /\ ast = NoAst
  /\ code = NoCode
  /\ results = <<>>

\* the body of `for (idx, raw_line) in input.lines().enumerate()`
AssembleLine ==
  /\ pc = "lines"
  /\ idx <= Len(input)
  /\ LET st == AssembleStep([buffer |-> buffer, start_line |-> start_line, joined |-> joined],
                            input[idx], idx)
     IN  /\ buffer' = st.buffer
         /\ start_line' = st.start_line
         /\ joined' = st.joined
  /\ idx' = idx + 1
  /\ UNCHANGED <<input, pc, k, tokens, ast, code, results, run, previous, uvars>>

\* after the line loop: the trailing buffer is pushed if it is not blank
FlushTrailing ==
  /\ pc = "lines"
  /\ idx > Len(input)
  /\ joined' = FlushStep([buffer |-> buffer, start_line |-> start_line, joined |-> joined])
  /\ pc' = "eval"
  /\ UNCHANGED <<input, idx, buffer, start_line, k, tokens, ast, code, results,
                 run, previous, uvars>>

\* a tokenize step that reports the 0-based column of the tokenizer error
TokenizeStatement_col0 ==
  /\ pc = "eval"
  /\ k <= Len(joined)
  /\ LET line_str == joined[k].text
         trimmed == Trim(line_str)
         t == Tokenize(trimmed)
     IN  IF trimmed = <<>>
         THEN /\ k' = k + 1
              /\ UNCHANGED <<pc, tokens, results>>
         ELSE IF t.ok
         THEN /\ tokens' = t
              /\ pc' = "parse"
              /\ UNCHANGED <<k, results>>
         ELSE /\ results' = Append(results,
                                   ParseEntry(TokenizerError(t.found, t.line, t.col - 1),
                                              line_str, joined[k].offset))
              /\ tokens' = t
              /\ k' = k + 1
              /\ UNCHANGED pc
  /\ UNCHANGED <<input, idx, buffer, start_line, joined, ast, code, run, previous, uvars>>

\* head of the evaluation loop: trim, skip if blank, tokenize; a tokenizer
\* error is pushed as a Parse error and the loop continues
TokenizeStatement ==
  /\ pc = "eval"
  /\ k <= Len(joined)
  /\ LET line_str == joined[k].text
         trimmed == Trim(line_str)
         t == Tokenize(trimmed)
     IN  IF trimmed = <<>>
         THEN /\ k' = k + 1
              /\ UNCHANGED <<pc, tokens, results>>
         ELSE IF t.ok
         THEN /\ tokens' = t
              /\ pc' = "parse"
              /\ UNCHANGED <<k, results>>
         ELSE /\ results' = Append(results,
                                   ParseEntry(TokenizerError(t.found, t.line, t.col),
                                              line_str, joined[k].offset))
              /\ tokens' = t
              /\ k' = k + 1
              /\ UNCHANGED pc
  /\ UNCHANGED <<input, idx, buffer, start_line, joined, ast, code, run, previous, uvars>>

\* a parse step that gives up the whole run at the first parser error
ParseStatement_abort ==
  /\ pc = "parse"
  /\ LET r == Parse(tokens.tokens)
     IN  /\ ast' = r
         /\ IF r.ok
            THEN /\ pc' = "compile"
                 /\ UNCHANGED <<k, results>>
            ELSE /\ results' = Append(results,
                                      ParseEntry(r.err, joined[k].text, joined[k].offset))
                 /\ k' = k + 1
                 /\ pc' = "done"
  /\ UNCHANGED <<input, idx, buffer, start_line, joined, tokens, code, run, previous, uvars>>

\* Parser::new(tokens).parse(); a parser error is pushed as a Parse error
ParseStatement ==
  /\ pc = "parse"
  /\ LET r == Parse(tokens.tokens)
     IN  /\ ast' = r
         /\ IF r.ok
            THEN /\ pc' = "compile"
                 /\ UNCHANGED <<k, results>>
            ELSE /\ results' = Append(results,
                                      ParseEntry(r.err, joined[k].text, joined[k].offset))
                 /\ k' = k + 1
                 /\ pc' = "eval"
  /\ UNCHANGED <<input, idx, buffer, start_line, joined, tokens, code, run, previous, uvars>>

\* BytecodeCompiler::compile; empty code contributes no entry
CompileStatement ==
  /\ pc = "compile"
  /\ LET c == Compile(ast.node)
     IN  /\ code' = c
         /\ IF ~c.ok
            THEN /\ results' = Append(results, CompileEntry(c.err, joined[k].text))
                 /\ k' = k + 1
                 /\ pc' = "eval"
            ELSE IF c.code = <<>>
            THEN /\ k' = k + 1
                 /\ pc' = "eval"
                 /\ UNCHANGED results
            ELSE /\ pc' = "execute"
                 /\ UNCHANGED <<k, results>>
  /\ UNCHANGED <<input, idx, buffer, start_line, joined, tokens, ast, run, previous, uvars>>

\* an execute step that drops the outcome and evaluates the statement again
ExecuteStatement_again ==
  /\ pc = "execute"
  /\ pc' = "eval"
  /\ UNCHANGED <<input, idx, buffer, start_line, joined, k, tokens, ast, code, results,
                 run, previous, uvars>>

\* executor.execute(&code): the value or the execution error is pushed
ExecuteStatement ==
  /\ pc = "execute"
  /\ LET r == Execute(code.code)
     IN  results' = Append(results,
                           IF r.ok THEN OkEntry(r.v, joined[k].text)
                                   ELSE ExecEntry(r.err, joined[k].text))
  /\ k' = k + 1
  /\ pc' = "eval"
  /\ UNCHANGED <<input, idx, buffer, start_line, joined, tokens, ast, code,
                 run, previous, uvars>>

\* the evaluation loop is exhausted: evaluate_lines returns results
Finish ==
  /\ pc = "eval"
  /\ k > Len(joined)
  /\ pc' = "done"
  /\ UNCHANGED <<input, idx, buffer, start_line, joined, k, tokens, ast, code, results,
                 run, previous, uvars>>

\* a second call that goes on with the result vector of the first
Rerun_keep ==
  /\ pc = "done"
  /\ run = 1
  /\ run' = 2
  /\ previous' = results
  /\ pc' = "lines"
  /\ idx' = 1
  /\ buffer' = <<>>
  /\ start_line' = 0
  /\ joined' = <<>>
  /\ k' = 1
  /\ tokens' = NoTokens
  /\ ast' = NoAst
  /\ code' = NoCode
  /\ UNCHANGED <<input, results, uvars>>

\* evaluate_lines is called a second time on the same input; every local of
\* the function is created anew and the first result is kept for comparison
Rerun ==
  /\ pc = "done"
  /\ run = 1
  /\ run' = 2
  /\ previous' = results
  /\ pc' = "lines"
  /\ idx' = 1
  /\ buffer' = <<>>
  /\ start_line' = 0
  /\ joined' = <<>>
  /\ k' = 1
  /\ results' = <<>>
  /\ tokens' = NoTokens
  /\ ast' = NoAst
  /\ code' = NoCode
  /\ UNCHANGED <<input, uvars>>

Next ==
  \/ Rerun
  \/ AssembleLine
  \/ FlushTrailing
  \/ TokenizeStatement
  \/ ParseStatement
  \/ CompileStatement
  \/ ExecuteStatement
  \/ Finish

Spec == Init /\ [][Next]_vars

\* the steps of one call of evaluate_lines: the function runs on a single
\* thread and waits for nothing, so a step that can be taken is taken
Step ==
  \/ AssembleLine
  \/ FlushTrailing
  \/ TokenizeStatement
  \/ ParseStatement
  \/ CompileStatement
  \/ ExecuteStatement
  \/ Finish

\* the inputs of the runs checked for termination: single lines of at most
\* LiveLen characters and at most LiveLines lines taken from LivePool
LiveLen == 2

LiveLines == 2

LivePool == {<<>>, <<"2">>, <<"\\">>, <<"@">>, <<";">>, <<"(">>}

LiveInputs ==
  {<<l>> : l \in UNION {[1..n -> ExprAlphabet] : n \in 0..LiveLen}}
    \cup UNION {[1..n -> LivePool] : n \in 0..LiveLines}

LiveInit ==
  /\ UnitIdle
  /\ run = 1
  /\ previous = <<>>
  /\ input \in LiveInputs
  /\ pc = "lines"
  /\ idx = 1
  /\ buffer = <<>>
  /\ start_line = 0
  /\ joined = <<>>
  /\ k = 1
  /\ tokens = NoTokens
  /\ ast = NoAst
  /\ code = NoCode
  /\ results = <<>>

LiveSpec == LiveInit /\ [][Next]_vars /\ WF_vars(Step)

\* ------------------------------------------------- evaluate_lines as a whole
\* the body of the evaluation loop for one joined statement: the entries
\* (none or one) it pushes
EvalStatement(stmt) ==
  LET trimmed == Trim(stmt.text)
      t == Tokenize(trimmed)
      p == Parse(t.tokens)
      c == Compile(p.node)
      x == Execute(c.code)
  IN  IF trimmed = <<>> THEN <<>>
      ELSE IF ~t.ok
      THEN <<ParseEntry(TokenizerError(t.found, t.line, t.col), stmt.text, stmt.offset)>>
      ELSE IF ~p.ok THEN <<ParseEntry(p.err, stmt.text, stmt.offset)>>
      ELSE IF ~c.ok THEN <<CompileEntry(c.err, stmt.text)>>
      ELSE IF c.code = <<>> THEN <<>>
      ELSE IF x.ok THEN <<OkEntry(x.v, stmt.text)>>
      ELSE <<ExecEntry(x.err, stmt.text)>>

RECURSIVE AssembleLoop(_, _, _)
AssembleLoop(lines, i, st) ==
  IF i > Len(lines) THEN st
  ELSE AssembleLoop(lines, i + 1, AssembleStep(st, lines[i], i))

RECURSIVE EvalLoop(_, _)
EvalLoop(stmts, i) ==
  IF i > Len(stmts) THEN <<>> ELSE EvalStatement(stmts[i]) \o EvalLoop(stmts, i + 1)

\* the value evaluate_lines returns for the input whose lines are `lines`
EvaluateLines(lines) ==
  EvalLoop(FlushStep(AssembleLoop(lines, 1,
                                  [buffer |-> <<>>, start_line |-> 0, joined |-> <<>>])), 1)

\* the stepwise run returns what the function computes
RunAgreesWithFunction == pc = "done" => results = EvaluateLines(input)

\* ------------------------------------------------------ the last statement
\* statement k - 1 has just gone through the evaluation loop
Evaluated == pc \in {"eval", "done"} /\ k > 1

LastStatement == joined[k - 1]

LastEntry == results[Len(results)]

\* --------------------------------------------- conventional arithmetic
\* The value of a token sequence read as a conventional expression: split
\* at the last binary + or - outside parentheses, else at the last * or /
\* or juxtaposition outside parentheses, else a sign, a parenthesised
\* expression or a literal.  This is not how the parser works.
DepthBefore(ts, i) ==
  Cardinality({j \in 1..(i - 1) : ts[j].type = "ParanOpen"})
    - Cardinality({j \in 1..(i - 1) : ts[j].type = "ParanClose"})

OperandEnd(t) == t.type \in {"Number", "ParanClose"}

OperandStart(t) == t.type \in {"Number", "ParanOpen"}

AddPositions(ts) ==
  {i \in 2..Len(ts) : /\ ts[i].type \in {"Plus", "Minus"}
                      /\ DepthBefore(ts, i) = 0
                      /\ OperandEnd(ts[i - 1])}

MulPositions(ts) ==
  {i \in 2..Len(ts) : /\ DepthBefore(ts, i) = 0
                      /\ \/ ts[i].type \in {"Mul", "Div"}
                         \/ OperandStart(ts[i]) /\ OperandEnd(ts[i - 1])}

MaxOf(S) == CHOOSE m \in S : \A n \in S : n <= m

RefBad == [valid |-> FALSE, dz |-> FALSE, v |-> Zero]

RefGood(v) == [valid |-> TRUE, dz |-> FALSE, v |-> v]

RefCombine(l, op, r) ==
  IF ~l.valid \/ ~r.valid THEN RefBad
  ELSE IF l.dz \/ r.dz \/ (op = "Div" /\ r.v[1] = 0)
  THEN [valid |-> TRUE, dz |-> TRUE, v |-> Zero]
  ELSE RefGood(CASE op = "Plus" -> RatAdd(l.v, r.v)
                 [] op = "Minus" -> RatSub(l.v, r.v)
                 [] op = "Mul" -> RatMul(l.v, r.v)
                 [] op = "Div" -> RatDiv(l.v, r.v))

RECURSIVE RefVal(_)
RefVal(ts) ==
  IF ts = <<>> THEN RefBad
  ELSE IF AddPositions(ts) # {}
  THEN LET i == MaxOf(AddPositions(ts))
       IN  RefCombine(RefVal(SubSeq(ts, 1, i - 1)), ts[i].type,
                      RefVal(SubSeq(ts, i + 1, Len(ts))))
  ELSE IF MulPositions(ts) # {}
  THEN LET i == MaxOf(MulPositions(ts))
       IN  IF ts[i].type \in {"Mul", "Div"}
           THEN RefCombine(RefVal(SubSeq(ts, 1, i - 1)), ts[i].type,
                           RefVal(SubSeq(ts, i + 1, Len(ts))))
           ELSE RefCombine(RefVal(SubSeq(ts, 1, i - 1)), "Mul",
                           RefVal(SubSeq(ts, i, Len(ts))))
  ELSE IF ts[1].type = "Plus" THEN RefVal(Tail(ts))
  ELSE IF ts[1].type = "Minus"
  THEN LET r == RefVal(Tail(ts))
       IN  IF r.valid /\ ~r.dz THEN RefGood(RatNeg(r.v)) ELSE r
  ELSE IF ts[1].type = "ParanOpen" /\ ts[Len(ts)].type = "ParanClose" /\ Len(ts) >= 3
  THEN RefVal(SubSeq(ts, 2, Len(ts) - 1))
  ELSE IF Len(ts) = 1 /\ ts[1].type = "Number" /\ ParseF64(ts[1].text).ok
  THEN RefGood(ParseF64(ts[1].text).v)
  ELSE RefBad

\* the conventional reading of a statement text
RefOf(text) ==
  LET t == Tokenize(Trim(text))
  IN  IF ~t.ok THEN RefBad ELSE RefVal(SubSeq(t.tokens, 1, Len(t.tokens) - 1))

\* the statement has a binary + or - to the left of a * or / or juxtaposition
\* at the same nesting depth, so that precedence decides its value
MixesLevels(text) ==
  LET t == Tokenize(Trim(text))
      ts == t.tokens
  IN  /\ t.ok
      /\ \E i \in AddPositions(SubSeq(ts, 1, Len(ts) - 1)) :
           \E j \in MulPositions(SubSeq(ts, 1, Len(ts) - 1)) : i < j

\* C1: every well-formed arithmetic expression without a division by zero
\* evaluates, through tokenize, parse, compile and execute, to its
\* conventional value: * / and juxtaposition on one level above binary + -,
\* every level grouping left to right.
C1_ConventionalValue ==
  Evaluated /\ RefOf(LastStatement.text).valid /\ ~RefOf(LastStatement.text).dz
    => /\ results # <<>>
       /\ LastEntry = OkEntry(RefOf(LastStatement.text).v, LastStatement.text)

C1_Witness ==
  /\ Evaluated
  /\ RefOf(LastStatement.text).valid
  /\ ~RefOf(LastStatement.text).dz
  /\ MixesLevels(LastStatement.text)
  /\ LastEntry.tag = "Ok"
  /\ LastEntry.v = <<7, 1>>

\* ------------------------------------------------- the value of a tree
\* The tree evaluated bottom-up, left operand before right operand; dz
\* says that some division met a right operand equal to 0.
RECURSIVE TreeVal(_)
TreeVal(e) ==
  CASE e[1] = "Number" -> [dz |-> FALSE, v |-> e[2]]
    [] e[1] = "EmptyParen" -> [dz |-> FALSE, v |-> Zero]
    [] e[1] = "Empty" -> [dz |-> FALSE, v |-> Zero]
    [] e[1] = "UnaryOp" ->
         LET x == TreeVal(e[3])
         IN  IF x.dz THEN x
             ELSE [dz |-> FALSE, v |-> IF e[2] = "Minus" THEN RatNeg(x.v) ELSE x.v]
    [] e[1] = "BinaryOp" ->
         LET l == TreeVal(e[2])
             r == TreeVal(e[4])
         IN  IF l.dz \/ r.dz \/ (e[3] = "Div" /\ r.v[1] = 0)
             THEN [dz |-> TRUE, v |-> Zero]
             ELSE [dz |-> FALSE,
                   v  |-> CASE e[3] = "Plus" -> RatAdd(l.v, r.v)
                            [] e[3] = "Minus" -> RatSub(l.v, r.v)
                            [] e[3] = "Mul" -> RatMul(l.v, r.v)
                            [] e[3] = "Div" -> RatDiv(l.v, r.v)]

\* the tree the parser builds for a statement text, when it builds one
TreeOf(text) ==
  LET t == Tokenize(Trim(text))
  IN  IF t.ok THEN Parse(t.tokens) ELSE PFail(NoErr, 0)

\* the statement divides by something that is not a literal
ComputedDivisor(text) ==
  LET ts == Tokenize(Trim(text)).tokens
  IN  \E i \in 1..(Len(ts) - 1) : ts[i].type = "Div" /\ ts[i + 1].type = "ParanOpen"

\* C2: a statement whose evaluation reaches a division by a right operand
\* equal to 0, literal or computed, whatever the dividend, yields the entry
\* Exec(DivisionByZero), which carries no value.
C2_DivisionByZero ==
  Evaluated /\ TreeOf(LastStatement.text).ok /\ TreeVal(TreeOf(LastStatement.text).node).dz
    => /\ results # <<>>
       /\ LastEntry = ExecEntry(DivisionByZero, LastStatement.text)
       /\ LastEntry.v = <<>>

C2_Witness ==
  /\ Evaluated
  /\ TreeOf(LastStatement.text).ok
  /\ TreeVal(TreeOf(LastStatement.text).node).dz
  /\ ComputedDivisor(LastStatement.text)
  /\ RefOf(LastStatement.text).valid
  /\ LastEntry.tag = "Exec"
  /\ LastEntry.xerr.kind = "DivisionByZero"

\* ------------------------------------------------- logical statements
\* The input cut into groups of physical lines: a group runs up to the
\* first line that does not end with a backslash (or to the end of the
\* input).  This is a description of the result of the line loop, not the
\* loop itself.
Content(line) == Trim(StripComment(line))

Continues(line) == EndsWithBackslash(Content(line))

RECURSIVE GroupEnd(_, _)
GroupEnd(lines, i) ==
  IF i >= Len(lines) \/ ~Continues(lines[i]) THEN i ELSE GroupEnd(lines, i + 1)

Piece(line) ==
  IF Continues(line)
  THEN Trim(SubSeq(Content(line), 1, Len(Content(line)) - 1)) \o <<" ">>
  ELSE Content(line)

RECURSIVE JoinLines(_, _, _)
JoinLines(lines, a, b) ==
  IF a > b THEN <<>> ELSE Piece(lines[a]) \o JoinLines(lines, a + 1, b)

RECURSIVE Groups(_, _)
Groups(lines, i) ==
  IF i > Len(lines) THEN <<>>
  ELSE LET j == GroupEnd(lines, i)
       IN  <<[first |-> i, last |-> j, text |-> JoinLines(lines, i, j)]>>
             \o Groups(lines, j + 1)

BlankGroup(g) == Trim(g.text) = <<>>

NonBlankGroup(g) == ~BlankGroup(g)

\* the non-blank logical statements of the input, in source order
RefStatements(lines) == SelectSeq(Groups(lines, 1), NonBlankGroup)

\* what a statement yields when it is evaluated by itself at its own place
OwnEntry(g) == EvalStatement([text |-> g.text, offset |-> g.first])

RemoveAt(seq, i) == SubSeq(seq, 1, i - 1) \o SubSeq(seq, i + 1, Len(seq))

\* the input with the physical lines a..b made empty
BlankOut(lines, a, b) ==
  [m \in 1..Len(lines) |-> IF a <= m /\ m <= b THEN <<>> ELSE lines[m]]

\* C3: evaluate_lines never stops at a failing statement: the results hold
\* exactly one entry per non-blank logical statement, the i-th entry belongs
\* to the i-th statement in source order, and the other entries are what
\* they would be had a failed statement not been there (its lines empty).
C3_OneEntryPerStatement ==
  LET stmts == RefStatements(input)
  IN  /\ Len(results) <= Len(stmts)
      /\ \A i \in 1..Len(results) :
           /\ results[i].text = stmts[i].text
           /\ <<results[i]>> = OwnEntry(stmts[i])
      /\ pc = "done" =>
           /\ Len(results) = Len(stmts)
           /\ \A i \in 1..Len(results) :
                results[i].tag # "Ok" =>
                  RemoveAt(results, i)
                    = EvaluateLines(BlankOut(input, stmts[i].first, stmts[i].last))

C3_Witness ==
  /\ pc = "done"
  /\ Len(results) = 3
  /\ results[1].tag = "Parse"
  /\ results[2].tag = "Ok"
  /\ results[3].tag = "Exec"

\* the input without the physical lines of its blank logical statements
RECURSIVE KeepNonBlank(_, _)
KeepNonBlank(lines, groups) ==
  IF groups = <<>> THEN <<>>
  ELSE (IF BlankGroup(Head(groups)) THEN <<>>
        ELSE SubSeq(lines, Head(groups).first, Head(groups).last))
       \o KeepNonBlank(lines, Tail(groups))

DeleteBlankGroups(lines) == KeepNonBlank(lines, Groups(lines, 1))

HasBlankGroup(lines) == \E i \in 1..Len(Groups(lines, 1)) : BlankGroup(Groups(lines, 1)[i])

AllBlank(lines) == \A i \in 1..Len(Groups(lines, 1)) : BlankGroup(Groups(lines, 1)[i])

\* the entries without the line offset that Parse errors carry
NoOffsets(entries) == [i \in 1..Len(entries) |-> [entries[i] EXCEPT !.offset = 0]]

\* C4 as stated: a blank logical statement yields no entry and the entries
\* of the other statements are those of the input without it.
C4_Original ==
  pc = "done" =>
    /\ results = EvaluateLines(DeleteBlankGroups(input))
    /\ AllBlank(input) => results = <<>>

\* C4 (amended): a blank logical statement (empty, whitespace-only or
\* comment-only after joining) yields no entry, and the entries of the other
\* statements are those of the input without it, except that a Parse error
\* carries the physical line number of its statement, blank lines counted;
\* an input made only of such statements yields no entry.
C4_BlankStatementsDropped ==
  pc = "done" =>
    /\ NoOffsets(results) = NoOffsets(EvaluateLines(DeleteBlankGroups(input)))
    /\ Len(results) = Len(RefStatements(input))
    /\ \A i \in 1..Len(results) :
         results[i].tag = "Parse" => results[i].offset = RefStatements(input)[i].first
    /\ AllBlank(input) => results = <<>>

C4_Witness ==
  /\ pc = "done"
  /\ Len(input) = 3
  /\ BlankGroup(Groups(input, 1)[1])
  /\ Len(Groups(input, 1)) = 2
  /\ Len(results) = 1
  /\ results[1].tag = "Parse"
  /\ results[1].offset = 3

\* ------------------------------------------------------- continuation
\* a group of at least two lines whose last line does not end with a backslash
Continued(lines, g) == g.last > g.first /\ ~Continues(lines[g.last])

\* position, among the entries, of the entry of the gi-th group
StmtIndex(lines, gi) ==
  Cardinality({j \in 1..gi : NonBlankGroup(Groups(lines, 1)[j])})

\* the join as C5 words it: the backslash removed, a single space added
ClaimPiece(line) ==
  IF Continues(line)
  THEN SubSeq(Content(line), 1, Len(Content(line)) - 1) \o <<" ">>
  ELSE Content(line)

RECURSIVE ClaimJoin(_, _, _)
ClaimJoin(lines, a, b) ==
  IF a > b THEN <<>> ELSE ClaimPiece(lines[a]) \o ClaimJoin(lines, a + 1, b)

\* an entry moved to the physical line `first`
AtLine(entry, first) ==
  [entry EXCEPT !.offset = IF entry.tag = "Parse" THEN first ELSE 0]

\* C5 as stated: the lines of a continuation, each without its backslash
\* and followed by one space, make one statement with exactly one entry,
\* the entry of that text written on a single line.
C5_Original ==
  pc = "done" =>
    \A gi \in 1..Len(Groups(input, 1)) :
      LET g == Groups(input, 1)[gi]
          single == EvaluateLines(<<ClaimJoin(input, g.first, g.last)>>)
      IN  Continued(input, g) =>
            /\ NonBlankGroup(g)
            /\ Len(single) = 1
            /\ results[StmtIndex(input, gi)] = AtLine(single[1], g.first)

\* C5 (amended): the lines of a continuation make one statement: each line
\* but the last without its backslash and the whitespace before it, followed
\* by a single space, then the last line trimmed.  A blank text yields no
\* entry; any other yields exactly one entry, the result of evaluating the
\* text as one statement, carrying the text as joined and the line of L1.
\* Unless the text itself ends with a backslash, value and error are those
\* of the text written on a single line.
C5_ContinuationJoined ==
  pc = "done" =>
    /\ Len(results) = Len(RefStatements(input))
    /\ \A gi \in 1..Len(Groups(input, 1)) :
         LET g == Groups(input, 1)[gi]
             single == EvaluateLines(<<g.text>>)
         IN  Continued(input, g) /\ NonBlankGroup(g) =>
               /\ results[StmtIndex(input, gi)].text = g.text
               /\ <<results[StmtIndex(input, gi)]>> = OwnEntry(g)
               /\ ~EndsWithBackslash(Trim(g.text)) =>
                    /\ Len(single) = 1
                    /\ results[StmtIndex(input, gi)]
                         = [AtLine(single[1], g.first) EXCEPT !.text = g.text]

C5_Witness ==
  /\ pc = "done"
  /\ Len(input) = 3
  /\ Len(Groups(input, 1)) = 1
  /\ Continued(input, Groups(input, 1)[1])
  /\ results = <<OkEntry(<<4, 1>>, Groups(input, 1)[1].text)>>

\* --------------------------------------------------------------- variables
\* C6: within one session a bare variable reference evaluates to the value
\* bound by the most recent let or assignment, and let and assignment
\* statements contribute no entry: `let a = 1`, `a = 2`, `a` yield exactly
\* one entry, the number 2.
C6_Original ==
  /\ pc = "done"
  /\ input = << <<"l", "e", "t", " ", "a", " ", "=", " ", "1">>,
                <<"a", " ", "=", " ", "2">>,
                <<"a">> >>
  => results = <<OkEntry(<<2, 1>>, <<"a">>)>>

\* the statement is a single identifier
BareIdentifier(text) ==
  LET t == Tokenize(Trim(text))
  IN  t.ok /\ Len(t.tokens) = 2 /\ t.tokens[1].type = "Identifier"

\* C7: a statement that references a name with no binding (no statement of
\* this model binds one) yields exactly one entry, the execution error
\* Exec(Other("undefined variable: <name>")).
C7_Original ==
  Evaluated /\ BareIdentifier(LastStatement.text)
    => /\ results # <<>>
       /\ LastEntry = ExecEntry(Other(<<"undefined variable: ",
                                        Tokenize(Trim(LastStatement.text)).tokens[1].text>>),
                                LastStatement.text)

\* ------------------------------------------------------- tokenizer errors
\* statement k is next in the evaluation loop and its text does not tokenize
TokenizeFails == pc = "eval" /\ k <= Len(joined) /\ ~Tokenize(Trim(joined[k].text)).ok

\* C8 (entry): a statement whose text fails to tokenize yields one entry
\* Parse(TokenizerError{message, line, col}, text, offset) with the line and
\* column of the tokenizer's error and a message naming the character, which
\* is the character at that column of the tokenized text.
C8_Entry ==
  Evaluated /\ ~Tokenize(Trim(LastStatement.text)).ok
    => LET t == Tokenize(Trim(LastStatement.text))
       IN  /\ results # <<>>
           /\ LastEntry = ParseEntry(TokenizerError(t.found, t.line, t.col),
                                     LastStatement.text, LastStatement.offset)
           /\ LastEntry.perr.line = 1
           /\ Trim(LastStatement.text)[LastEntry.perr.col] = LastEntry.perr.message[2]
           /\ LastEntry.tag \notin {"Compile", "Exec"}

\* C8 (step): the step that meets the tokenizer error pushes exactly one
\* entry and goes on to the next statement; parser, compiler and executor
\* are not run for the statement.
C8_Step ==
  TokenizeFails
    => /\ Len(results') = Len(results) + 1
       /\ k' = k + 1
       /\ pc' = "eval"
       /\ UNCHANGED <<ast, code>>

\* C8: a tokenizer failure is reported as exactly one Parse entry carrying a
\* TokenizerError with the tokenizer's line and column and the offending
\* character, never as a Compile or Exec error, and no parsing is attempted.
C8_TokenizerErrorWrapped == [](C8_Entry) /\ [][C8_Step]_vars

C8_Witness ==
  /\ Evaluated
  /\ ~Tokenize(Trim(LastStatement.text)).ok
  /\ LastEntry.tag = "Parse"
  /\ LastEntry.perr.kind = "TokenizerError"
  /\ LastEntry.perr.col = 3
  /\ LastEntry.perr.message = <<"Unexpected character", "%">>

\* ------------------------------------------------- where parsing must stop
\* A scan of the filtered tokens that only tracks whether an operand is
\* required and how many parentheses are open.  It returns the position of
\* the token at which the stream stops being the beginning of an expression
\* and why: "operand" (the token cannot start an operand), "close" (an open
\* parenthesis is followed by something other than its `)`), "number" (a
\* literal that is not a number), or position 0 when parsing succeeds.
Stop(at, why) == [at |-> at, why |-> why]

RECURSIVE Scan(_, _, _, _)
Scan(toks, i, expect, depth) ==
  LET cur == toks[i] IN
  IF expect /\ cur.type \in {"Plus", "Minus"} THEN Scan(toks, i + 1, TRUE, depth)
  ELSE IF ~expect /\ cur.type \in {"Plus", "Minus", "Mul", "Div"}
  THEN Scan(toks, i + 1, TRUE, depth)
  ELSE IF cur.type = "Number"
  THEN IF ParseF64(cur.text).ok THEN Scan(toks, i + 1, FALSE, depth)
       ELSE Stop(i, "number")
  ELSE IF cur.type = "ParanOpen"
  THEN IF toks[i + 1].type = "ParanClose" THEN Scan(toks, i + 2, FALSE, depth)
       ELSE Scan(toks, i + 1, TRUE, depth + 1)
  ELSE IF expect THEN Stop(i, "operand")
  ELSE IF cur.type = "ParanClose" /\ depth > 0 THEN Scan(toks, i + 1, FALSE, depth - 1)
  ELSE IF depth > 0 THEN Stop(i, "close")
  ELSE Stop(0, "")

\* the filtered tokens of a statement text that tokenizes
TokensOf(text) == FilterTokens(Tokenize(Trim(text)).tokens)

StopOf(text) == Scan(TokensOf(text), 1, TRUE, 0)

\* the token starts, in the tokenized text, at the column it carries
StartsAt(trimmed, t) ==
  CASE t.type = "EOF" -> t.start = Len(trimmed) + 1
    [] t.type \in {"Number", "Identifier"} ->
         SubSeq(trimmed, t.start, t.start + Len(t.text) - 1) = t.text
    [] t.type = "Let" -> SubSeq(trimmed, t.start, t.start + 2) = <<"l", "e", "t">>
    [] t.type \in {"Plus", "PlusAssign"} -> trimmed[t.start] = "+"
    [] t.type \in {"Minus", "MinusAssign"} -> trimmed[t.start] = "-"
    [] t.type \in {"Mul", "MulAssign"} -> trimmed[t.start] = "*"
    [] t.type \in {"Div", "DivAssign"} -> trimmed[t.start] = "/"
    [] t.type = "ParanOpen" -> trimmed[t.start] = "("
    [] t.type = "ParanClose" -> trimmed[t.start] = ")"
    [] t.type = "Assign" -> trimmed[t.start] = "="
    [] t.type = "Colon" -> trimmed[t.start] = ":"

\* the last statement tokenizes and the scan stops at the token `tok` for `why`
StopsAt(why, isEof) ==
  /\ Evaluated
  /\ Tokenize(Trim(LastStatement.text)).ok
  /\ StopOf(LastStatement.text).at > 0
  /\ StopOf(LastStatement.text).why \in why
  /\ (TokensOf(LastStatement.text)[StopOf(LastStatement.text).at].type = "EOF") = isEof

StopToken == TokensOf(LastStatement.text)[StopOf(LastStatement.text).at]

C10_UnexpectedToken ==
  StopsAt({"operand"}, FALSE) \/ StopsAt({"close"}, FALSE) \/ StopsAt({"close"}, TRUE)
    => /\ results # <<>>
       /\ LastEntry = ParseEntry(UnexpectedToken(StopToken),
                                 LastStatement.text, LastStatement.offset)
       /\ LastEntry.perr.found = Found(StopToken)
       /\ StartsAt(Trim(LastStatement.text), StopToken)
       /\ LastEntry.perr.col = StopToken.start

C10_Witness ==
  /\ StopsAt({"operand"}, FALSE)
  /\ LastStatement.text = <<"1", " ", "+", " ", "*", " ", "2">>
  /\ LastEntry.perr = [kind |-> "UnexpectedToken", found |-> <<"Mul", <<>>>>,
                       line |-> 1, col |-> 5, value |-> <<>>, message |-> <<>>]

\* the scan finds no stop exactly when the parser accepts the statement
ScanAgreesWithParser ==
  Evaluated /\ Tokenize(Trim(LastStatement.text)).ok /\ Trim(LastStatement.text) # <<>>
    => /\ results # <<>>
       /\ (StopOf(LastStatement.text).at = 0) = (LastEntry.tag # "Parse")
       /\ StopOf(LastStatement.text).why = "number"
            => LastEntry.perr.kind = "InvalidNumber"

\* ======================================================== units on their own
\* The tokenizer, the compiler and the executor are public functions; here
\* each is applied to inputs that evaluate_lines cannot hand to it (texts
\* with newlines, trees and instruction sequences built by hand).
MaxContent == 4

ContentAlphabet == {"1", ".", "e", "+", "=", ";", "\n", " ", "a", "@", "sup2"}

RECURSIVE ContentsUpTo(_)
ContentsUpTo(n) ==
  IF n = 0 THEN {<<>>}
  ELSE LET shorter == ContentsUpTo(n - 1)
       IN  shorter \cup {Append(c, x) : c \in {d \in shorter : Len(d) = n - 1},
                                        x \in ContentAlphabet}

\* inputs of the tokenizer's own tests
ExampleContents ==
  { <<"3", ".", "1", "4", ".", "1", "5">>,
    <<" ", " ", " ">>,
    <<"1", "e", "-", "5">>,
    <<"1", " ", "+", "\n", " ", "2", " ", ";", "c", "\n", "$">>,
    <<"1", " ", "+", "\n", " ", "2", " ", ";", "c", "\n", "a">>,
    <<"x", "\t", "-", "=", " ", "(", "2", ".", "5", "e", "+", "1", ")", "\r", "\n", "\n", "l", "e", "t", ":">>,
    <<"1", ";", "sup2", "a", "\n", "2">>,
    <<"l", "e", "t", "s", " ", "L", "e", "t", " ", "_", "l", "e", "t", " ",
      "l", "e", "t", "1", " ", "l", "e", "t", " ", "1", "a">>,
    <<"l", "e", "t">>,
    <<"1", "e", "x", "_", "2", ";", "a", "\n", "l", "e", "t", "+", "l", "e">>,
    <<"l", "e", "t", " ", "x", " ", "=", " ", "1", "0">>,
    <<"x", "sup2", " ", "+", "=", " ", "1", "\n", "\t", "%">>,
    <<"_", "sup2">>,
    <<"_", "a", "_", "1", " ", "sup2">> }

Contents == ContentsUpTo(MaxContent) \cup ExampleContents

\* the variables of evaluate_lines while a unit is exercised on its own
MainIdle ==
  /\ input = <<>>
  /\ pc = "idle"
  /\ idx = 1
  /\ buffer = <<>>
  /\ start_line = 0
  /\ joined = <<>>
  /\ k = 1
  /\ tokens = NoTokens
  /\ ast = NoAst
  /\ code = NoCode
  /\ results = <<>>
  /\ run = 1
  /\ previous = <<>>

TokenizeInit ==
  /\ unit = "tokenize"
  /\ content \in Contents
  /\ lexed = NoTokens
  /\ expr = Empty
  /\ instructions = <<>>
  /\ ip = 0
  /\ stack = <<>>
  /\ outcome = XOk(<<>>)

\* Tokenizer::new(content).tokenize()
TokenizeContent ==
  /\ unit = "tokenize"
  /\ lexed' = Tokenize(content)
  /\ unit' = "tokenized"
  /\ UNCHANGED <<input, pc, idx, buffer, start_line, joined, k, tokens, ast, code,
                 results, run, previous, content, expr, instructions, ip, stack, outcome>>

\* ------------------------------------------------------ trees and programs
MaxNodes == 5

MaxCode == 4

Leaves == {Number(<<2, 1>>), Number(<<3, 1>>), EmptyParen, Empty}

\* the trees of exactly n nodes over the operators the compiler supports
RECURSIVE ExprsOfSize(_)
ExprsOfSize(n) ==
  IF n = 1 THEN Leaves
  ELSE {UnaryOp(op, e) : op \in {"Plus", "Minus"}, e \in ExprsOfSize(n - 1)}
         \cup UNION {{BinaryOp(l, op, r) : l \in ExprsOfSize(i),
                                           op \in {"Plus", "Minus", "Mul", "Div"},
                                           r \in ExprsOfSize(n - 1 - i)}
                     : i \in 1..(n - 2)}

\* trees no parser builds: operators the compiler has no instruction for
UnsupportedExprs ==
  { UnaryOp("Mul", Number(<<2, 1>>)),
    BinaryOp(Number(<<2, 1>>), "Assign", Number(<<3, 1>>)),
    BinaryOp(Number(<<2, 1>>), "Plus", UnaryOp("Div", EmptyParen)),
    BinaryOp(BinaryOp(EmptyParen, "ParanOpen", Empty), "Minus", Number(<<3, 1>>)) }

Exprs == UNION {ExprsOfSize(n) : n \in 1..MaxNodes} \cup UnsupportedExprs

InstrSet == {<<"Push", <<6, 1>>>>, <<"Push", <<2, 1>>>>, <<"Push", Zero>>,
             <<"Add">>, <<"Sub">>, <<"Mul">>, <<"Div">>, <<"Neg">>}

RECURSIVE ProgramsUpTo(_)
ProgramsUpTo(n) ==
  IF n = 0 THEN {<<>>}
  ELSE LET shorter == ProgramsUpTo(n - 1)
       IN  shorter \cup {Append(q, x) : q \in {d \in shorter : Len(d) = n - 1},
                                        x \in InstrSet}

Programs == ProgramsUpTo(MaxCode)

CompileInit ==
  /\ unit = "compile"
  /\ expr \in Exprs
  /\ content = <<>>
  /\ lexed = NoTokens
  /\ instructions = <<>>
  /\ ip = 0
  /\ stack = <<>>
  /\ outcome = XOk(<<>>)

RunInit ==
  /\ unit = "run"
  /\ instructions \in Programs
  /\ ip = 1
  /\ stack = <<>>
  /\ content = <<>>
  /\ lexed = NoTokens
  /\ expr = Empty
  /\ outcome = XOk(<<>>)

UnitInit == MainIdle /\ (TokenizeInit \/ CompileInit \/ RunInit)

\* BytecodeCompiler::compile(&expr); its code is then handed to the executor
CompileTree ==
  /\ unit = "compile"
  /\ IF Compile(expr).ok
     THEN /\ instructions' = Compile(expr).code
          /\ ip' = 1
          /\ unit' = "run"
          /\ UNCHANGED outcome
     ELSE /\ outcome' = [ok |-> FALSE, v |-> <<>>,
                         err |-> [kind |-> "UnsupportedOperator",
                                  instr |-> Compile(expr).err, message |-> <<>>]]
          /\ unit' = "halted"
          /\ UNCHANGED <<instructions, ip>>
  /\ UNCHANGED <<input, pc, idx, buffer, start_line, joined, k, tokens, ast, code,
                 results, run, previous, content, lexed, expr, stack>>

\* one turn of `for instr in instructions`; an error returns at once
ExecStep ==
  /\ unit = "run"
  /\ ip <= Len(instructions)
  /\ stack' = ExecInstr(instructions[ip], stack).stack
  /\ IF ExecInstr(instructions[ip], stack).ok
     THEN /\ ip' = ip + 1
          /\ UNCHANGED <<unit, outcome>>
     ELSE /\ outcome' = XFail(ExecInstr(instructions[ip], stack).err)
          /\ unit' = "halted"
          /\ UNCHANGED ip
  /\ UNCHANGED <<input, pc, idx, buffer, start_line, joined, k, tokens, ast, code,
                 results, run, previous, content, lexed, expr, instructions>>

\* after the loop: `match stack.pop()`
ExecReturn ==
  /\ unit = "run"
  /\ ip > Len(instructions)
  /\ outcome' = IF stack = <<>> THEN XFail(NoResult) ELSE XOk(Top(stack))
  /\ stack' = IF stack = <<>> THEN stack ELSE Pop(stack)
  /\ unit' = "halted"
  /\ UNCHANGED <<input, pc, idx, buffer, start_line, joined, k, tokens, ast, code,
                 results, run, previous, content, lexed, expr, instructions, ip>>

UnitNext ==
  \/ TokenizeContent
  \/ CompileTree
  \/ ExecStep
  \/ ExecReturn

UnitSpec == UnitInit /\ [][UnitNext]_vars

\* the stepwise executor returns what execute returns
StepsAgreeWithExecute == unit = "halted" /\ instructions # <<>> => outcome = Execute(instructions)

\* ------------------------------------------------------------ the EOF token
\* C11: whenever tokenize succeeds, the token sequence is non-empty, its last
\* token is EOF and no earlier token is EOF; the empty text and a text of
\* whitespace only yield the EOF token alone.
C11_EndsWithOneEOF ==
  unit = "tokenized" /\ lexed.ok
    => /\ lexed.tokens # <<>>
       /\ lexed.tokens[Len(lexed.tokens)].type = "EOF"
       /\ \A i \in 1..(Len(lexed.tokens) - 1) : lexed.tokens[i].type # "EOF"
       /\ (\A i \in 1..Len(content) : content[i] \in Whitespace)
            => Len(lexed.tokens) = 1

C11_Witness ==
  /\ unit = "tokenized"
  /\ content = <<" ", " ", " ">>
  /\ lexed.ok
  /\ lexed.tokens = <<TokPos("EOF", 1, 4)>>

\* ---------------------------------------------------- unexpected characters
\* The characters the sentence lists: operators, parentheses, `=`, `:`, `;`,
\* newline, whitespace, digits, letters and `_`.
Listed ==
  {"+", "-", "*", "/", "(", ")", "=", ":", ";", "\n", "_"}
    \cup Whitespace \cup Digits \cup Letters

\* What the scan is in the middle of after reading c in mode m, or "bad" when
\* c is a character that must fail.  Modes: "top" (between tokens), "int" and
\* "frac" (a number before and after its dot), "mark" (just after e or E),
\* "exp" (exponent digits), "ident", "comment".  With ident_numerics a
\* non-ASCII numeric may continue an identifier.
AtTop(c) ==
  IF c \in Digits THEN "int"
  ELSE IF c \in Letters \/ c = "_" THEN "ident"
  ELSE IF c = ";" THEN "comment"
  ELSE IF c \in Listed THEN "top"
  ELSE "bad"

CharStep(m, c, ident_numerics) ==
  CASE m = "comment" -> IF c = "\n" THEN "top" ELSE "comment"
    [] m = "int" /\ c = "." -> "frac"
    [] m \in {"int", "frac"} /\ c \in {"e", "E"} -> "mark"
    [] m = "mark" /\ c \in {"+", "-"} -> "exp"
    [] m \in {"mark", "exp"} /\ c \in Digits -> "exp"
    [] m = "frac" /\ c \in Digits -> "frac"
    [] m = "ident" /\ (c \in Digits \/ (ident_numerics /\ c \in Numerics)) -> "ident"
    [] OTHER -> AtTop(c)

\* position of the first character that must fail, 0 when there is none
RECURSIVE FirstBad(_, _, _, _)
FirstBad(text, i, m, ident_numerics) ==
  IF i > Len(text) THEN 0
  ELSE IF CharStep(m, text[i], ident_numerics) = "bad" THEN i
  ELSE FirstBad(text, i + 1, CharStep(m, text[i], ident_numerics), ident_numerics)

\* 1-based line and column of position i of a text
LineOf(text, i) == 1 + Cardinality({j \in 1..(i - 1) : text[j] = "\n"})

ColOf(text, i) ==
  i - MaxOf({0} \cup {j \in 1..(i - 1) : text[j] = "\n"})

FailsAtFirstBad(ident_numerics) ==
  unit = "tokenized"
    => /\ lexed.ok = (FirstBad(content, 1, "top", ident_numerics) = 0)
       /\ ~lexed.ok
            => lexed = [ok |-> FALSE, tokens |-> <<>>,
                        found |-> content[FirstBad(content, 1, "top", ident_numerics)],
                        line |-> LineOf(content, FirstBad(content, 1, "top", ident_numerics)),
                        col |-> ColOf(content, FirstBad(content, 1, "top", ident_numerics))]

\* C12 as stated: tokenize fails exactly when, outside a comment, there is a
\* character that is not listed (or a dot that cannot continue a number), and
\* the error is that of the first such character.
C12_Original == FailsAtFirstBad(FALSE)

\* C12 (amended): tokenize fails exactly when the scan reaches, outside a
\* comment, a character that is not an operator, parenthesis, `=`, `:`, `;`,
\* newline, whitespace, ASCII digit, letter or `_`, a dot that cannot
\* continue a number included, and a non-ASCII numeric character that
\* continues an identifier excluded; it then returns UnexpectedCharacter for
\* the first such character with its 1-based line and column and no tokens.
C12_UnexpectedCharacter == FailsAtFirstBad(TRUE)

C12_Witness ==
  /\ unit = "tokenized"
  /\ content = <<"3", ".", "1", "4", ".", "1", "5">>
  /\ lexed = [ok |-> FALSE, tokens |-> <<>>, found |-> ".", line |-> 1, col |-> 5]

\* --------------------------------------------------------------- diagnostics
DigitChar(d) ==
  CASE d = 0 -> "0" [] d = 1 -> "1" [] d = 2 -> "2" [] d = 3 -> "3" [] d = 4 -> "4"
    [] d = 5 -> "5" [] d = 6 -> "6" [] d = 7 -> "7" [] d = 8 -> "8" [] d = 9 -> "9"

\* usize::to_string
RECURSIVE Decimal(_)
Decimal(n) == IF n < 10 THEN <<DigitChar(n)>> ELSE Append(Decimal(n \div 10), DigitChar(n % 10))

\* " ".repeat(n)
Spaces(n) == [i \in 1..n |-> " "]

\* a line number that adds the relative line to the offset as it is
AbsoluteLine_sum(original_line_offset, relative_line_num) ==
  original_line_offset + relative_line_num

\* absolute_line_num of Display for EvalError
AbsoluteLine(original_line_offset, relative_line_num) ==
  original_line_offset + relative_line_num - 1

\* Display for ParserError, as the pieces it writes
DisplayParserError(e) ==
  <<CASE e.kind = "UnexpectedToken" -> <<"Unexpected token: found ", e.found, "\n">>
      [] e.kind = "UnexpectedEOF" -> <<"Unexpected end of input">>
      [] e.kind = "InvalidNumber" -> <<"Invalid number: ", e.value>>
      [] e.kind = "TokenizerError" ->
           <<"Tokenizer error: ", e.message[1], " '", e.message[2], "'">>,
    " at line ", Decimal(e.line), ", col ", Decimal(e.col)>>

\* Display for EvalError::Parse: the message, then the line `N | text` and
\* the line that points at the column
DisplayParse(entry) ==
  [message |-> <<"Error: ", DisplayParserError(entry.perr)>>,
   source |-> Decimal(AbsoluteLine(entry.offset, entry.perr.line))
                \o <<" ", "|", " ">> \o entry.text,
   pointer |-> Spaces(Len(Decimal(AbsoluteLine(entry.offset, entry.perr.line))))
                 \o <<" ", "|", " ">> \o Spaces(entry.perr.col - 1) \o <<"^">>]

\* the number a rendered line starts with
RECURSIVE LeadingNumber(_, _)
LeadingNumber(line, acc) ==
  IF line = <<>> \/ Head(line) \notin Digits THEN acc
  ELSE LeadingNumber(Tail(line), 10 * acc + DigitVal(Head(line)))

\* C13: every Parse entry carries as offset the 1-based number of the first
\* physical line of its logical statement, and the line number its
\* diagnostic shows in front of the statement text is offset + line - 1,
\* line being the line the tokenizer or parser reported within the statement.
C13_LineOffset ==
  \A i \in 1..Len(results) :
    results[i].tag = "Parse"
      => /\ results[i].offset = RefStatements(input)[i].first
         /\ results[i].offset \in 1..Len(input)
         /\ LeadingNumber(DisplayParse(results[i]).source, 0)
              = results[i].offset + results[i].perr.line - 1
         /\ Len(DisplayParse(results[i]).pointer)
              = Len(Decimal(results[i].offset + results[i].perr.line - 1))
                  + 3 + results[i].perr.col

C13_Witness ==
  /\ pc = "done"
  /\ Len(results) = 2
  /\ results[2].tag = "Parse"
  /\ results[2].offset = 3
  /\ Continues(input[1])
  /\ DisplayParse(results[2]).source = <<"3", " ", "|", " ", "@">>

\* --------------------------------------------------------- empty parentheses
\* positions of the `(` of each `()` in a text
EmptyParenAt(text) == {q \in 1..(Len(text) - 1) : text[q] = "(" /\ text[q + 1] = ")"}

\* the text with `(0)` in place of the `()` at q
WithZero(text, q) == SubSeq(text, 1, q) \o <<"0">> \o SubSeq(text, q + 1, Len(text))

\* two entries are the same result: the same value, or the same error apart
\* from the column, which the inserted character moves
SameResult(e1, e2) ==
  /\ e1.tag = e2.tag
  /\ e1.v = e2.v
  /\ e1.xerr = e2.xerr
  /\ e1.cerr = e2.cerr
  /\ e1.perr.kind = e2.perr.kind
  /\ e1.perr.found = e2.perr.found
  /\ e1.perr.line = e2.perr.line

\* C14: `()` evaluates to 0 in every context: the statement `()` yields 0 and
\* writing `(0)` for any one `()` of a statement leaves its result unchanged.
C14_EmptyParenIsZero ==
  Evaluated /\ Trim(LastStatement.text) # <<>>
    => /\ Trim(LastStatement.text) = <<"(", ")">>
            => LastEntry = OkEntry(Zero, LastStatement.text)
       /\ \A q \in EmptyParenAt(LastStatement.text) :
            /\ EvalStatement([text |-> WithZero(LastStatement.text, q),
                              offset |-> LastStatement.offset]) # <<>>
            /\ SameResult(LastEntry,
                          EvalStatement([text |-> WithZero(LastStatement.text, q),
                                         offset |-> LastStatement.offset])[1])

C14_Witness ==
  /\ Evaluated
  /\ LastStatement.text = <<"3", "(", ")">>
  /\ EmptyParenAt(LastStatement.text) = {2}
  /\ LastEntry = OkEntry(Zero, <<"3", "(", ")">>)

RECURSIVE Supported(_)
Supported(e) ==
  CASE e[1] = "UnaryOp" -> e[2] \in {"Plus", "Minus"} /\ Supported(e[3])
    [] e[1] = "BinaryOp" ->
         e[3] \in {"Plus", "Minus", "Mul", "Div"} /\ Supported(e[2]) /\ Supported(e[4])
    [] OTHER -> TRUE

\* the stack depths before each instruction of a program run from depth d,
\* counted from the instructions alone: -1 marks a pop of an empty stack
RECURSIVE DepthAfter(_, _, _)
DepthAfter(prog, i, d) ==
  IF d < 0 \/ i > Len(prog) THEN d
  ELSE CASE prog[i][1] = "Push" -> DepthAfter(prog, i + 1, d + 1)
         [] prog[i][1] = "Neg" -> DepthAfter(prog, i + 1, IF d >= 1 THEN d ELSE -1)
         [] OTHER -> DepthAfter(prog, i + 1, IF d >= 2 THEN d - 1 ELSE -1)

\* C16: no entry of evaluate_lines is Compile(UnsupportedOperator),
\* Exec(StackUnderflow) or Exec(NoResult): the parser only builds unary Plus
\* and Minus and binary Plus, Minus, Mul and Div, and the code handed to the
\* executor never pops an empty stack and leaves a value.
C16_NoDefensiveError ==
  /\ \A i \in 1..Len(results) :
       /\ results[i].tag # "Compile"
       /\ results[i].xerr.kind \notin {"StackUnderflow", "NoResult"}
  /\ pc \in {"compile", "execute"} => ast.ok /\ Supported(ast.node)
  /\ pc = "execute" => code.ok /\ DepthAfter(code.code, 1, 0) >= 1

C16_Witness ==
  /\ Evaluated
  /\ LastStatement.text = <<"+">>
  /\ LastEntry.tag = "Parse"
  /\ LastEntry.perr.kind = "UnexpectedToken"

\* ------------------------------------------------------ compiled code runs
RECURSIVE NoEmpty(_)
NoEmpty(e) ==
  CASE e[1] = "Empty" -> FALSE
    [] e[1] = "UnaryOp" -> NoEmpty(e[3])
    [] e[1] = "BinaryOp" -> NoEmpty(e[2]) /\ NoEmpty(e[4])
    [] OTHER -> TRUE

\* how many of the first n instructions are Push, how many are binary
Pushes(prog, n) == Cardinality({i \in 1..n : prog[i][1] = "Push"})

Binaries(prog, n) ==
  Cardinality({i \in 1..n : prog[i][1] \in {"Add", "Sub", "Mul", "Div"}})

\* the code of a tree without Empty is running or has run
RunsCompiled == unit \in {"run", "halted"} /\ NoEmpty(expr) /\ Supported(expr)

\* C17: the code compiled from a tree without Empty, run from an empty
\* stack, never pops an empty stack; after each instruction the depth is the
\* number of Push executed minus the number of binary instructions executed;
\* unless a division by zero stops it, the loop ends with exactly one value
\* on the stack, and that value (the value of the tree) is the result.
C17_OneValueLeft ==
  RunsCompiled
    => /\ instructions = Compile(expr).code
       /\ unit = "run"
            => /\ Len(stack) = Pushes(instructions, ip - 1) - Binaries(instructions, ip - 1)
               /\ ip > Len(instructions)
                    => stack = <<TreeVal(expr).v>> /\ ~TreeVal(expr).dz
       /\ unit = "halted"
            => /\ outcome.err.kind \notin {"StackUnderflow", "NoResult"}
               /\ outcome.ok = ~TreeVal(expr).dz
               /\ outcome.ok => outcome = XOk(TreeVal(expr).v) /\ stack = <<>>
               /\ ~outcome.ok => outcome = XFail(DivisionByZero)

C17_Witness ==
  /\ RunsCompiled
  /\ unit = "halted"
  /\ expr = BinaryOp(Number(<<2, 1>>), "Minus", UnaryOp("Minus", Number(<<3, 1>>)))
  /\ instructions = <<<<"Push", <<2, 1>>>>, <<"Push", <<3, 1>>>>, <<"Neg">>, <<"Sub">>>>
  /\ outcome = XOk(<<5, 1>>)

\* ------------------------------------------------------------ stack underflow
\* the executor is at an instruction that has too few operands
Underflows ==
  /\ unit = "run"
  /\ ip <= Len(instructions)
  /\ \/ instructions[ip][1] \in {"Add", "Sub", "Mul", "Div"} /\ Len(stack) < 2
     \/ instructions[ip][1] = "Neg" /\ stack = <<>>

\* C18 as stated: whenever execute reaches Add, Sub, Mul or Div with fewer
\* than two values on the stack, or Neg with none, whatever the values
\* present, it returns StackUnderflow naming that instruction and pushes
\* nothing.
C18_Original ==
  [][Underflows
       => /\ unit' = "halted"
          /\ outcome' = XFail(StackUnderflow(instructions[ip][1]))
          /\ Len(stack') <= Len(stack)]_vars

\* apart from Div meeting a lone zero, an instruction with too few operands
\* returns StackUnderflow naming it
UnderflowExceptZeroDivisor ==
  [][Underflows /\ ~(instructions[ip][1] = "Div" /\ stack = <<Zero>>)
       => /\ unit' = "halted"
          /\ outcome' = XFail(StackUnderflow(instructions[ip][1]))
          /\ Len(stack') <= Len(stack)]_vars

\* ------------------------------------------------------------- operand order
\* the executor is at a binary instruction that has its two operands and
\* does not divide by zero
HasOperands ==
  /\ unit = "run"
  /\ ip <= Len(instructions)
  /\ instructions[ip][1] \in {"Add", "Sub", "Mul", "Div"}
  /\ Len(stack) >= 2
  /\ ~(instructions[ip][1] = "Div" /\ stack[Len(stack)][1] = 0)

\* left operand l and right operand r combined by the instruction named op
Combined(op, l, r) ==
  CASE op = "Add" -> Norm(l[1] * r[2] + r[1] * l[2], l[2] * r[2])
    [] op = "Sub" -> Norm(l[1] * r[2] - r[1] * l[2], l[2] * r[2])
    [] op = "Mul" -> Norm(l[1] * r[1], l[2] * r[2])
    [] op = "Div" -> Norm(l[1] * r[2], l[2] * r[1])

\* C19: a binary instruction executed with at least two values takes the
\* top of the stack for its right operand and the value beneath for its
\* left operand (Sub leaves a - b, Div leaves a / b after Push a, Push b);
\* both are removed, the one result is pushed, the values below stay.
C19_OperandOrder ==
  [][HasOperands
       => /\ unit' = "run"
          /\ ip' = ip + 1
          /\ Len(stack') = Len(stack) - 1
          /\ SubSeq(stack', 1, Len(stack) - 2) = SubSeq(stack, 1, Len(stack) - 2)
          /\ stack'[Len(stack) - 1]
               = Combined(instructions[ip][1], stack[Len(stack) - 1], stack[Len(stack)])]_vars

C19_Witness ==
  /\ unit = "run"
  /\ instructions = <<<<"Push", <<2, 1>>>>, <<"Push", <<6, 1>>>>, <<"Push", <<2, 1>>>>, <<"Div">>>>
  /\ ip = 5
  /\ stack = <<<<2, 1>>, <<3, 1>>>>

\* ------------------------------------------------------------ post-order walk
InstrOf(op) ==
  CASE op = "Plus" -> <<"Add">> [] op = "Minus" -> <<"Sub">>
    [] op = "Mul" -> <<"Mul">> [] op = "Div" -> <<"Div">>

\* the post-order walk of a tree, written as concatenation
RECURSIVE PostOrder(_)
PostOrder(e) ==
  CASE e[1] = "Number" -> <<<<"Push", e[2]>>>>
    [] e[1] = "UnaryOp" ->
         IF e[2] = "Minus" THEN PostOrder(e[3]) \o <<<<"Neg">>>> ELSE PostOrder(e[3])
    [] e[1] = "BinaryOp" -> PostOrder(e[2]) \o PostOrder(e[4]) \o <<InstrOf(e[3])>>
    [] e[1] = "Empty" -> <<>>
    [] e[1] = "EmptyParen" -> <<<<"Push", <<0, 1>>>>>>

\* C20: compile is the post-order walk of the tree: Number n gives [Push n],
\* unary + the operand's code, unary - the operand's code then Neg, a binary
\* node the left code, the right code, then the instruction of its operator,
\* Empty nothing and EmptyParen [Push 0].
C20_PostOrder ==
  [][unit = "compile" /\ Supported(expr)
       => /\ unit' = "run"
          /\ instructions' = PostOrder(expr)
          /\ Compile(expr) = COk(PostOrder(expr))]_vars

C20_Witness ==
  /\ unit = "run"
  /\ ip = 1
  /\ expr = BinaryOp(UnaryOp("Plus", Number(<<2, 1>>)), "Div", UnaryOp("Minus", EmptyParen))
  /\ instructions = <<<<"Push", <<2, 1>>>>, <<"Push", <<0, 1>>>>, <<"Neg">>, <<"Div">>>>

\* ------------------------------------------------- implicit multiplication
\* the token stream with an explicit `*` put in front of token i
InsertMul(toks, i) ==
  SubSeq(toks, 1, i - 1) \o <<TokPos("Mul", toks[i].line, toks[i].start)>>
    \o SubSeq(toks, i, Len(toks))

\* the positions of a token of one of the kinds `primaries` that directly
\* follows the last token of an operand
Juxtaposed(toks, primaries) ==
  {i \in 2..Len(toks) : OperandEnd(toks[i - 1]) /\ toks[i].type \in primaries}

SameTree(a, b) == a.ok = b.ok /\ a.node = b.node /\ a.err = b.err

\* the last statement went through the parser and `ast` is its result
Parsed == Evaluated /\ tokens.ok /\ tokens = Tokenize(Trim(LastStatement.text))

ImplicitMul(primaries) ==
  Parsed => \A i \in Juxtaposed(FilterTokens(tokens.tokens), primaries) :
              SameTree(ast, Parse(InsertMul(FilterTokens(tokens.tokens), i)))

\* C21 as stated: when an operand is directly followed by `(`, a number or an
\* identifier, the parser builds the tree of the token stream with an explicit
\* `*` between the two.
C21_Original == ImplicitMul({"ParanOpen", "Number", "Identifier"})

\* the same for `(` and a number alone
ImplicitMulOfParenOrNumber == ImplicitMul({"ParanOpen", "Number"})

\* `(3)2` is parsed as (3) * 2
ImplicitMulSeen ==
  /\ Parsed
  /\ LastStatement.text = <<"(", "3", ")", "2">>
  /\ ast.node = BinaryOp(Number(<<3, 1>>), "Mul", Number(<<2, 1>>))

\* ------------------------------------------------------------------ comments
\* the position of the first `;` of a line, one past its end if it has none
FirstSemi(line) ==
  IF \E i \in 1..Len(line) : line[i] = ";"
  THEN CHOOSE i \in 1..Len(line) : line[i] = ";" /\ \A j \in 1..(i - 1) : line[j] # ";"
  ELSE Len(line) + 1

BeforeSemi(line) == SubSeq(line, 1, FirstSemi(line) - 1)

Uncommented(lines) == [i \in 1..Len(lines) |-> BeforeSemi(lines[i])]

\* the line has a backslash in its comment and none as its last character
\* before the comment
BackslashInCommentOnly(line) ==
  /\ \E i \in (FirstSemi(line) + 1)..Len(line) : line[i] = "\\"
  /\ ~EndsWithBackslash(Trim(BeforeSemi(line)))

\* C22: on each physical line the text from the first `;` on is removed
\* before the continuation test and before tokenization: the statement stays
\* open after a line exactly when a backslash is the last non-blank character
\* before the `;`, no `;` and no Comment token reaches the evaluation loop,
\* and the result is that of the input with every comment deleted.
C22_CommentRemoved ==
  /\ pc = "lines" /\ idx > 1
       => (buffer # <<>>) = EndsWithBackslash(Trim(BeforeSemi(input[idx - 1])))
  /\ \A i \in 1..Len(joined) : \A j \in 1..Len(joined[i].text) : joined[i].text[j] # ";"
  /\ \A i \in 1..Len(tokens.tokens) : tokens.tokens[i].type # "Comment"
  /\ pc = "done" => results = EvaluateLines(Uncommented(input))

C22_Witness ==
  /\ pc = "done"
  /\ Len(input) = 3
  /\ input[1] = <<"1", " ", "+", " ", "\\", " ", ";", "@">>
  /\ BackslashInCommentOnly(input[2])
  /\ Len(results) = 2
  /\ results[1] = OkEntry(<<3, 1>>, <<"1", " ", "+", " ", "2">>)

\* ------------------------------------------------- input ends in a continuation
\* the last physical line ends, comment aside, with a backslash
OpenAtEnd(lines) == lines # <<>> /\ Continues(lines[Len(lines)])

LastGroup(lines) == Groups(lines, 1)[Len(Groups(lines, 1))]

\* the lines before the last group
BeforeLastGroup(lines) == SubSeq(lines, 1, LastGroup(lines).first - 1)

\* C23: when the input ends while a continuation is open, the accumulated
\* text, if it is not blank, yields exactly one entry after those of the
\* statements before it, the entry of that text evaluated as a statement at
\* the line where it began; if it is blank it yields no entry.
C23_TrailingEvaluated ==
  pc = "done" /\ OpenAtEnd(input) =>
    IF NonBlankGroup(LastGroup(input))
    THEN /\ Len(OwnEntry(LastGroup(input))) = 1
         /\ results = EvaluateLines(BeforeLastGroup(input)) \o OwnEntry(LastGroup(input))
         /\ results[Len(results)].text = LastGroup(input).text
    ELSE results = EvaluateLines(BeforeLastGroup(input))

C23_Witness ==
  /\ pc = "done"
  /\ Len(input) = 2
  /\ input[2] = <<"1", " ", "+", " ", "\\">>
  /\ OpenAtEnd(input)
  /\ Len(results) = 2
  /\ results[1].tag = "Ok"
  /\ results[2].text = <<"1", " ", "+", " ">>
  /\ results[2].perr.found = <<"EOF", <<>>>>
  /\ results[2].offset = 2

\* ------------------------------------------------- exponents without digits
\* the raw text ends with an exponent marker, or with an exponent marker and
\* a sign
DanglingExponent(raw) ==
  /\ raw # <<>>
  /\ \/ raw[Len(raw)] \in {"e", "E"}
     \/ Len(raw) > 1 /\ raw[Len(raw)] \in {"+", "-"} /\ raw[Len(raw) - 1] \in {"e", "E"}

IsDangling(t) == t.type = "Number" /\ DanglingExponent(t.text)

\* the positions of such a number where the parser needs an operand: the
\* first token of the statement, or the token at which the scan stops
DanglingReached(text) ==
  {i \in {1, StopOf(text).at} \ {0} : IsDangling(TokensOf(text)[i])}

\* C24: a number whose exponent marker (and optional sign) has no digits
\* after it is a Number token carrying the raw text; a statement whose
\* parsing reaches it (`1e`, `2E+`, `1 + 3e- 2`) yields
\* Parse(InvalidNumber{value, line, col}) with the raw text and the start of
\* that token, never a tokenizer error and never a number.
C24_InvalidNumber ==
  Parsed =>
    \A i \in DanglingReached(LastStatement.text) :
      /\ results # <<>>
      /\ LastEntry = ParseEntry(InvalidNumber(TokensOf(LastStatement.text)[i]),
                                LastStatement.text, LastStatement.offset)
      /\ LastEntry.perr.kind = "InvalidNumber"
      /\ LastEntry.perr.value = TokensOf(LastStatement.text)[i].text
      /\ StartsAt(Trim(LastStatement.text), TokensOf(LastStatement.text)[i])
      /\ LastEntry.perr.line = 1
      /\ LastEntry.perr.col = TokensOf(LastStatement.text)[i].start

C24_Witness ==
  /\ Parsed
  /\ LastStatement.text = <<"1", " ", "+", " ", "3", "e", "-", " ", "2">>
  /\ DanglingReached(LastStatement.text) = {3}
  /\ LastEntry.perr.kind = "InvalidNumber"
  /\ LastEntry.perr.value = <<"3", "e", "-">>
  /\ LastEntry.perr.col = 5

\* ------------------------------------------------------- token positions
\* the characters a token is written with
Spelling(t) ==
  CASE t.type \in {"Number", "Identifier"} -> t.text
    [] t.type = "Let" -> <<"l", "e", "t">>
    [] t.type = "Comment" -> <<";">> \o t.text
    [] t.type = "Newline" -> <<"\n">>
    [] t.type = "Plus" -> <<"+">>
    [] t.type = "Minus" -> <<"-">>
    [] t.type = "Mul" -> <<"*">>
    [] t.type = "Div" -> <<"/">>
    [] t.type = "PlusAssign" -> <<"+", "=">>
    [] t.type = "MinusAssign" -> <<"-", "=">>
    [] t.type = "MulAssign" -> <<"*", "=">>
    [] t.type = "DivAssign" -> <<"/", "=">>
    [] t.type = "ParanOpen" -> <<"(">>
    [] t.type = "ParanClose" -> <<")">>
    [] t.type = "Assign" -> <<"=">>
    [] t.type = "Colon" -> <<":">>
    [] t.type = "EOF" -> <<>>

\* position of the newline that ends line n, 0 for n = 0 or when there is none
LineEnd(text, n) ==
  MaxOf({0} \cup {j \in 1..Len(text) : text[j] = "\n" /\ LineOf(text, j) = n})

\* the position in the text of column col of line `line`
PosAt(text, line, col) == LineEnd(text, line - 1) + col

PosOfToken(text, t) == PosAt(text, t.line, t.start)

\* one past the last character of the token
EndOfToken(text, t) == PosOfToken(text, t) + Len(Spelling(t))

\* the token carries the line and column of the place where it is written
WrittenAt(text, t) ==
  /\ PosOfToken(text, t) \in 1..(Len(text) + 1)
  /\ LineOf(text, PosOfToken(text, t)) = t.line
  /\ ColOf(text, PosOfToken(text, t)) = t.start
  /\ EndOfToken(text, t) <= Len(text) + 1
  /\ SubSeq(text, PosOfToken(text, t), EndOfToken(text, t) - 1) = Spelling(t)

\* every token is written where it says, the tokens follow each other in the
\* text with nothing but whitespace between them, and EOF is one past the end
PositionsRight(text, toks) ==
  /\ \A n \in 1..Len(toks) : WrittenAt(text, toks[n])
  /\ \A n \in 1..Len(toks) :
       \A j \in (IF n = 1 THEN 1 ELSE EndOfToken(text, toks[n - 1]))
                  ..(PosOfToken(text, toks[n]) - 1) : text[j] \in Whitespace
  /\ \A n \in 2..Len(toks) : EndOfToken(text, toks[n - 1]) <= PosOfToken(text, toks[n])
  /\ PosOfToken(text, toks[Len(toks)]) = Len(text) + 1
  /\ \A n \in 1..Len(toks) :
       toks[n].type = "Newline" /\ n < Len(toks) /\ toks[n + 1].type # "EOF"
         => toks[n + 1].line = toks[n].line + 1

\* some comment of the text has a character of more than one byte
WideComment(toks) ==
  \E n \in 1..Len(toks) : toks[n].type = "Comment" /\ Utf8Len(toks[n].text) # Len(toks[n].text)

\* C25 as stated: every token of a successful tokenize carries the line
\* (1 + newlines before it) and the column (1 + characters since the
\* preceding newline) of its first character; a Newline token carries the
\* line it ends, the next token is on the next line, and EOF is one column
\* past the last character.
C25_Original ==
  unit = "tokenized" /\ lexed.ok => PositionsRight(content, lexed.tokens)

\* the same for texts whose comments hold one-byte characters only
PositionsWithNarrowComments ==
  unit = "tokenized" /\ lexed.ok /\ ~WideComment(lexed.tokens)
    => PositionsRight(content, lexed.tokens)

\* a text of three lines with leading whitespace, a comment and an identifier
PositionsSeen ==
  /\ unit = "tokenized"
  /\ lexed.ok
  /\ content = <<"1", " ", "+", "\n", " ", "2", " ", ";", "c", "\n", "a">>
  /\ PositionsRight(content, lexed.tokens)
  /\ Len(lexed.tokens) = 8

\* ------------------------------------------------------------- identifiers
\* the mode of the character scan of C12 just before position i
RECURSIVE ModeAt(_, _)
ModeAt(text, i) ==
  IF i = 1 THEN "top" ELSE CharStep(ModeAt(text, i - 1), text[i - 1], TRUE)

\* the positions where the scan enters an identifier: a letter or `_` that is
\* not in a comment and does not continue an identifier or a number
IdentStarts(text) ==
  {p \in 1..Len(text) : /\ ModeAt(text, p) # "ident"
                        /\ CharStep(ModeAt(text, p), text[p], TRUE) = "ident"}

IdentChar(c) == c \in Letters \cup Digits \cup Numerics \/ c = "_"

\* the longest run of alphanumeric characters and `_` that starts at p
RunFrom(text, p) ==
  SubSeq(text, p, MaxOf({q \in p..Len(text) : \A j \in p..q : IdentChar(text[j])}))

WordTokens(toks) == {n \in 1..Len(toks) : toks[n].type \in {"Identifier", "Let"}}

\* C26: the Identifier and Let tokens are exactly the maximal runs of
\* alphanumeric characters and `_` that begin with a letter or `_` where a
\* token may begin; the token is Let if and only if the run is `let`, and an
\* Identifier named by the run otherwise; no such token begins with a digit.
C26_Identifiers ==
  unit = "tokenized" /\ lexed.ok =>
    /\ {PosOfToken(content, lexed.tokens[n]) : n \in WordTokens(lexed.tokens)}
         = IdentStarts(content)
    /\ Cardinality(WordTokens(lexed.tokens)) = Cardinality(IdentStarts(content))
    /\ \A n \in WordTokens(lexed.tokens) :
         /\ content[PosOfToken(content, lexed.tokens[n])] \in Letters \cup {"_"}
         /\ content[PosOfToken(content, lexed.tokens[n])] \notin Digits
         /\ Spelling(lexed.tokens[n])
              = RunFrom(content, PosOfToken(content, lexed.tokens[n]))
         /\ (lexed.tokens[n].type = "Let")
              = (RunFrom(content, PosOfToken(content, lexed.tokens[n])) = <<"l", "e", "t">>)
         /\ lexed.tokens[n].type = "Let" => lexed.tokens[n].text = <<>>

C26_Witness ==
  /\ unit = "tokenized"
  /\ lexed.ok
  /\ content = <<"l", "e", "t", "s", " ", "L", "e", "t", " ", "_", "l", "e", "t", " ",
                 "l", "e", "t", "1", " ", "l", "e", "t", " ", "1", "a">>
  /\ [n \in 1..Len(lexed.tokens) |-> lexed.tokens[n].type]
       = <<"Identifier", "Identifier", "Identifier", "Identifier", "Let", "Number",
           "Identifier", "EOF">>
  /\ lexed.tokens[4].text = <<"l", "e", "t", "1">>

\* -------------------------------------------------------------- termination
\* an upper bound of the steps a call of evaluate_lines still has to take:
\* one per physical line left, one for the end of the line loop, four per
\* statement left (tokenize, parse, compile, execute) and one for the return
Remaining ==
  (IF run = 1 THEN 5 * Len(input) + 3 ELSE 0)
    + CASE pc = "lines" -> (Len(input) + 1 - idx) + 4 * Len(input) + 2
        [] pc = "eval" -> 4 * (Len(joined) + 1 - k) + 1
        [] pc = "parse" -> 4 * (Len(joined) + 1 - k)
        [] pc = "compile" -> 4 * (Len(joined) + 1 - k) - 1
        [] pc = "execute" -> 4 * (Len(joined) + 1 - k) - 2
        [] pc = "done" -> 0

RECURSIVE Nodes(_)
Nodes(e) ==
  CASE e[1] = "UnaryOp" -> 1 + Nodes(e[3])
    [] e[1] = "BinaryOp" -> 1 + Nodes(e[2]) + Nodes(e[4])
    [] OTHER -> 1

\* every step uses up some of what remains; a line is visited once, a
\* statement leaves the evaluation loop once, the tokenizer makes at most one
\* token per character, the parser stays within the tokens and builds at most
\* two nodes per token it consumes, and the code has one instruction per node
Progress ==
  /\ Remaining' < Remaining
  /\ Remaining' >= 0
  /\ idx' \in {idx, idx + 1} \/ (pc = "done" /\ idx' = 1)
  /\ k' \in {k, k + 1} \/ (pc = "done" /\ k' = 1)
  /\ Len(joined') <= idx' - 1 \/ pc' # "lines"
  /\ pc = "eval" /\ pc' = "parse" => Len(tokens'.tokens) <= Len(Trim(joined[k].text)) + 1
  /\ pc = "parse" /\ ast'.ok
       => /\ ast'.pos \in 2..Len(FilterTokens(tokens.tokens))
          /\ Nodes(ast'.node) <= 2 * (ast'.pos - 1)
  /\ pc = "compile" /\ code'.ok => Len(code'.code) <= Nodes(ast.node)

\* C27: every call of evaluate_lines returns, and every step of it consumes
\* input: a physical line, a statement, characters, tokens or tree nodes.
C27_Terminates == ((pc = "lines") ~> (pc = "done")) /\ [][Progress]_vars

C27_Witness ==
  /\ pc = "done"
  /\ run = 2
  /\ Len(input) = 2
  /\ Len(results) = 2
  /\ results[1].tag = "Parse"
  /\ results[2].tag = "Ok"
  /\ Remaining = 0

\* ---------------------------------------------------------- leftover tokens
\* the parser stopped on the EOF token of the last statement
AllConsumed == FilterTokens(tokens.tokens)[ast.pos].type = "EOF"

\* C28 as stated: whenever a statement yields a number, the parser has
\* consumed every token up to EOF; a statement with tokens left after a
\* complete expression yields a Parse error.
C28_Original ==
  Parsed /\ results # <<>> /\ LastEntry.tag = "Ok" => AllConsumed

\* a statement that leaves tokens behind yields what its leading expression
\* yields: the rest is never looked at
LeftoverIgnored ==
  Parsed /\ ast.ok /\ ~AllConsumed
    => LET toks == FilterTokens(tokens.tokens)
           lead == SubSeq(toks, 1, ast.pos - 1) \o <<toks[Len(toks)]>>
       IN  /\ Parse(lead).ok
           /\ Parse(lead).node = ast.node
           /\ results # <<>>
           /\ LastEntry.tag \in {"Ok", "Exec"}

LeftoverSeen ==
  /\ Parsed
  /\ LastStatement.text = <<"(", "1", "+", "2", ")", ")">>
  /\ ~AllConsumed
  /\ LastEntry = OkEntry(<<3, 1>>, LastStatement.text)

\* ------------------------------------------------ the caret and the carried text
\* the blanks the carried text has in front of the text that was tokenized
LeadingBlanks(text) == Len(text) - Len(TrimStart(text))

\* the token a Parse error reports, placed at column `col`
Offending(perr, col) ==
  [type |-> perr.found[1], text |-> perr.found[2], line |-> perr.line,
   start |-> col, end |-> col]

\* the character at column `col` of `text` starts what the error reports: the
\* rejected character, the rejected number, the unexpected token, or, for
\* EOF, the column after the last character that is not blank
CaretUnder(perr, text, col) ==
  /\ col \in 1..(Len(text) + 1)
  /\ CASE perr.kind = "TokenizerError" ->
            col <= Len(text) /\ text[col] = perr.message[2]
       [] perr.kind = "InvalidNumber" ->
            /\ col + Len(perr.value) - 1 <= Len(text)
            /\ SubSeq(text, col, col + Len(perr.value) - 1) = perr.value
       [] perr.kind = "UnexpectedEOF" -> col = Len(TrimEnd(text)) + 1
       [] perr.kind = "UnexpectedToken" ->
            IF perr.found[1] = "EOF" THEN col = Len(TrimEnd(text)) + 1
            ELSE col <= Len(text) /\ StartsAt(text, Offending(perr, col))

\* C29 as stated: for every Parse error of evaluate_lines the reported column
\* is a position of the statement text the error carries, and the character
\* there is the first character of the offending token (for EOF, the column
\* after the last non-blank character), also when the statement began with
\* continuation lines that hold only a backslash.
C29_Original ==
  \A i \in 1..Len(results) :
    results[i].tag = "Parse"
      => CaretUnder(results[i].perr, results[i].text, results[i].perr.col)

\* what the code does instead: the column counts from the first non-blank
\* character of the carried text, so the offending token sits LeadingBlanks
\* columns to the right of the reported column, and under the caret only
\* when the carried text starts with a non-blank character.
CaretShiftedByLeadingBlanks ==
  \A i \in 1..Len(results) :
    results[i].tag = "Parse"
      => /\ CaretUnder(results[i].perr, results[i].text,
                       results[i].perr.col + LeadingBlanks(results[i].text))
         /\ CaretUnder(results[i].perr, Trim(results[i].text), results[i].perr.col)

\* `\` alone, then `1 + * 2`: the text carried is ` 1 + * 2`, the column 5,
\* and the fifth character of the carried text is the blank before the `*`
CaretShiftedSeen ==
  /\ pc = "done"
  /\ Len(results) = 1
  /\ results[1].tag = "Parse"
  /\ results[1].text = <<" ", "1", " ", "+", " ", "*", " ", "2">>
  /\ results[1].perr.kind = "UnexpectedToken"
  /\ results[1].perr.col = 5
  /\ results[1].text[5] = " "
  /\ DisplayParse(results[1]).pointer
       = <<" ", " ", "|", " ", " ", " ", " ", " ", "^">>

\* ------------------------------------------------------ the parser position
\* the token stream the parser of the current statement works on
ParserTokens == FilterTokens(tokens.tokens)

\* a statement has been tokenized and its tokens are what the parser sees
Parsing == tokens.ok /\ tokens.tokens # <<>>

\* the code's position (0-based) for a position of the model (1-based)
CodePos(pos) == pos - 1

\* the code's position is an index of the tokens
Within(toks, pos) == CodePos(pos) >= 0 /\ CodePos(pos) < Len(toks)

\* the stream has EOF as its last token and nowhere else
EndsWithEOF(toks) ==
  /\ Len(toks) >= 1
  /\ \A i \in 1..Len(toks) : (toks[i].type = "EOF") = (i = Len(toks))

\* advance keeps the position within the tokens, moves by at most one, and
\* does not move from EOF
AdvanceStays(toks, pos) ==
  /\ Within(toks, Advance(toks, pos))
  /\ Advance(toks, pos) \in {pos, pos + 1}
  /\ toks[pos].type = "EOF" => Advance(toks, pos) = pos
  /\ toks[pos].type # "EOF" => Advance(toks, pos) = pos + 1

\* parse_factor, parse_term and parse_expr, entered at a position within the
\* tokens, leave the position within the tokens and never move it back,
\* whether they succeed or fail
ParsersStay(toks, pos) ==
  /\ Within(toks, ParseFactor(toks, pos).pos) /\ ParseFactor(toks, pos).pos >= pos
  /\ Within(toks, ParseTerm(toks, pos).pos) /\ ParseTerm(toks, pos).pos >= pos
  /\ Within(toks, ParseExpr(toks, pos).pos) /\ ParseExpr(toks, pos).pos >= pos

\* C30: while a token stream produced by tokenize is parsed, the parser
\* position pos satisfies 0 <= pos < number of filtered tokens, so that
\* current() is defined: the filtered stream ends with EOF, the parser starts
\* at 0, advance and every parsing function started at a position within the
\* tokens end at one, advance never moves past the final EOF token, and a
\* position on EOF stays there.
C30_PositionWithinTokens ==
  Parsing
    => /\ EndsWithEOF(ParserTokens)
       /\ Within(ParserTokens, 1)
       /\ \A pos \in 1..Len(ParserTokens) :
            AdvanceStays(ParserTokens, pos) /\ ParsersStay(ParserTokens, pos)
       /\ Within(ParserTokens, Parse(tokens.tokens).pos)
       /\ Parsed => ast = Parse(tokens.tokens) /\ Within(ParserTokens, ast.pos)

\* `(2+3)` is parsed: six tokens, five calls of advance, the position ends
\* on EOF, the last index
C30_Witness ==
  /\ Parsed
  /\ LastStatement.text = <<"(", "2", "+", "3", ")">>
  /\ Len(ParserTokens) = 6
  /\ ast.ok
  /\ CodePos(ast.pos) = 5
  /\ ParserTokens[ast.pos].type = "EOF"
  /\ Advance(ParserTokens, ast.pos) = ast.pos


====
